---- MODULE Spec2Model ----
(***************************************************************************)
(* Model of the IDkg dealing core of the threshold-ECDSA library           *)
(* (rs/crypto/internal/crypto_lib/threshold_sig/tecdsa/src/idkg/           *)
(* dealings.rs): IDkgDealingInternal::new, publicly_verify and             *)
(* privately_verify.                                                       *)
(*                                                                         *)
(* The functions of dealings.rs are translated statement by statement.     *)
(* The collaborators they call (EccScalar, Polynomial, the polynomial      *)
(* commitments, the MEGa encryption and the two zero-knowledge proof       *)
(* systems) live in other files of the crate; they are modelled as ideal   *)
(* functionalities over a small prime field:                               *)
(*   - a scalar is [curve, v] with v in 0..Order-1;                        *)
(*   - a curve point is written by its exponents over two independent      *)
(*     generators g and h: [curve, g, h];                                  *)
(*   - a MEGa ciphertext entry is the plaintext under a pad that names the *)
(*     whole decryption context; a wrong context decrypts to a different   *)
(*     scalar;                                                             *)
(*   - a zero-knowledge proof carries the statement it was created for and *)
(*     verifies exactly against that statement.                            *)
(***************************************************************************)
EXTENDS Integers, Sequences, FiniteSets, TLC

\* ------------------------------------------------------------------------
\* Bounds of the model
\* ------------------------------------------------------------------------
MaxRecipients == 2
MaxSecret == 2
MaxSeed == 1
MaxDealer == 1
MaxAD == 1
MaxKey == 2
\* the bits of the machine word of the sandbox protocol: the 64 bits of
\* the source, scaled down so that values around the maximum can be enumerated
WordBits == 24

\* ------------------------------------------------------------------------
\* Curves, scalars and points
\* ------------------------------------------------------------------------
Order == 5

EccCurveType == {"K256", "P256"}

EccScalar(curve, v) == [curve |-> curve, v |-> v % Order]

NoScalar == [curve |-> "none", v |-> 0]

EccPoint(curve, g, h) == [curve |-> curve, g |-> g % Order, h |-> h % Order]

\* EccScalar::from_node_index: the abscissa of node index idx is idx + 1
from_node_index(curve, idx) == EccScalar(curve, idx + 1)

\* EccScalar::mul
scalar_mul(a, b) == EccScalar(a.curve, a.v * b.v)

\* ------------------------------------------------------------------------
\* Seed and random number generator
\* ------------------------------------------------------------------------
DstPolynomials == 1
DstMegaEncrypt == 2
DstEqualOpenings == 3
DstProduct == 4

\* Seed::derive(domain separator)
seed_derive(seed, dst) == 5 * seed + dst

\* the k-th output (k = 0, 1, ...) of the generator Seed::into_rng() gives
rng_output(sub_seed, k) == (sub_seed * (k + 2) + k * k + 1) % Order

\* EccScalar::random(curve, rng), as the k-th draw of the generator
scalar_random(curve, sub_seed, k) == EccScalar(curve, rng_output(sub_seed, k))

\* ------------------------------------------------------------------------
\* Polynomial
\* ------------------------------------------------------------------------
\* Polynomial::random(curve, num_coefficients, rng), rng at its k0-th draw
polynomial_random(curve, num_coefficients, sub_seed, k0) ==
    [curve |-> curve,
     coeffs |-> [i \in 1..num_coefficients |-> rng_output(sub_seed, k0 + i - 1)]]

\* Polynomial::random_with_constant(constant, num_coefficients, rng)
polynomial_random_with_constant(constant, num_coefficients, sub_seed, k0) ==
    [curve |-> constant.curve,
     coeffs |-> [i \in 1..num_coefficients |->
                   IF i = 1 THEN constant.v
                   ELSE rng_output(sub_seed, k0 + i - 2)]]

RECURSIVE horner(_, _, _)
horner(coeffs, x, i) ==
    IF i > Len(coeffs) THEN 0
    ELSE (coeffs[i] + x * horner(coeffs, x, i + 1)) % Order

\* Polynomial::evaluate_at(scalar)
polynomial_evaluate_at(poly, x) == EccScalar(poly.curve, horner(poly.coeffs, x.v, 1))

\* ------------------------------------------------------------------------
\* Polynomial commitments
\* ------------------------------------------------------------------------
PolynomialCommitmentType == {"Simple", "Pedersen"}

NoCommitment == [ctype |-> "none", curve |-> "none", points |-> <<>>]

\* SimpleCommitment::create(poly, num_coefficients)
simple_commitment_create(poly, num_coefficients) ==
    [ctype |-> "Simple", curve |-> poly.curve,
     points |-> [i \in 1..num_coefficients |-> [g |-> poly.coeffs[i], h |-> 0]]]

\* PedersenCommitment::create(values, mask, num_coefficients)
pedersen_commitment_create(values, mask, num_coefficients) ==
    [ctype |-> "Pedersen", curve |-> values.curve,
     points |-> [i \in 1..num_coefficients |->
                   [g |-> values.coeffs[i], h |-> mask.coeffs[i]]]]

RECURSIVE horner_g(_, _, _)
horner_g(points, x, i) ==
    IF i > Len(points) THEN 0
    ELSE (points[i].g + x * horner_g(points, x, i + 1)) % Order

RECURSIVE horner_h(_, _, _)
horner_h(points, x, i) ==
    IF i > Len(points) THEN 0
    ELSE (points[i].h + x * horner_h(points, x, i + 1)) % Order

\* PolynomialCommitment::evaluate_at(node index)
commitment_evaluate_at(c, idx) ==
    EccPoint(c.curve, horner_g(c.points, (idx + 1) % Order, 1),
                      horner_h(c.points, (idx + 1) % Order, 1))

\* PolynomialCommitment::constant_term
commitment_constant_term(c) == EccPoint(c.curve, c.points[1].g, c.points[1].h)

\* PolynomialCommitment::verify_is(ctype, curve)
commitment_verify_is(c, ctype, curve) ==
    IF c.curve # curve THEN "CurveMismatch"
    ELSE IF c.ctype # ctype THEN "UnexpectedCommitmentType"
    ELSE "Ok"

\* ------------------------------------------------------------------------
\* MEGa encryption
\* ------------------------------------------------------------------------
MEGaCiphertextType == {"Single", "Pairs"}

NoCiphertext ==
    [ctype |-> "none", key_curve |-> "none", pt_curve |-> "none",
     eph |-> 0, pop |-> <<0, 0>>, ctexts |-> <<>>]

MEGaPrivateKey(curve, v) == [curve |-> curve, v |-> v]
MEGaPublicKey(curve, v) == [curve |-> curve, v |-> v]

\* the public key of a private key
public_key_of(sk) == MEGaPublicKey(sk.curve, sk.v)

\* the ephemeral secret of an encryption, never zero
mega_beta(mega_seed) == 1 + (rng_output(mega_seed, 0) % (Order - 1))

\* the pad of the entry of one recipient: the hash input of the MEGa scheme
mega_pad(dealer_index, recipient_index, associated_data, pk_v, eph, ubar) ==
    <<dealer_index, recipient_index, associated_data, pk_v, eph, ubar>>

same_curve(recipients) ==
    \A i \in 1..Len(recipients) : recipients[i].curve = recipients[1].curve

\* MEGaCiphertextSingle::encrypt / MEGaCiphertextPair::encrypt; a plaintext
\* is a pair <<value, mask>>, the mask of a Single plaintext being 0
mega_encrypt(ctype, mega_seed, plaintexts, recipients, dealer_index, associated_data) ==
    IF Len(plaintexts) # Len(recipients) \/ Len(plaintexts) = 0
    THEN [err |-> "InvalidArguments", ct |-> NoCiphertext]
    ELSE IF ~same_curve(recipients)
    THEN [err |-> "CurveMismatch", ct |-> NoCiphertext]
    ELSE LET beta == mega_beta(mega_seed)
         IN [err |-> "Ok",
             ct |-> [ctype |-> ctype,
                     key_curve |-> recipients[1].curve,
                     pt_curve |-> plaintexts[1][1].curve,
                     eph |-> beta,
                     pop |-> <<associated_data, dealer_index>>,
                     ctexts |-> [i \in 1..Len(recipients) |->
                        [body |-> <<plaintexts[i][1].v, plaintexts[i][2].v>>,
                         pad |-> mega_pad(dealer_index, i - 1, associated_data,
                                          recipients[i].v, beta,
                                          (beta * recipients[i].v) % Order)]]]]

\* MEGaCiphertext::check_validity
check_validity(ct, expected_recipients, associated_data, dealer_index) ==
    IF Len(ct.ctexts) # expected_recipients THEN "InvalidRecipients"
    ELSE IF ct.pop # <<associated_data, dealer_index>> THEN "InvalidProof"
    ELSE "Ok"

\* MEGaCiphertext::verify_is(ctype, key_curve, plaintext_curve)
ciphertext_verify_is(ct, ctype, key_curve, plaintext_curve) ==
    IF ct.key_curve # key_curve THEN "CurveMismatch"
    ELSE IF ct.pt_curve # plaintext_curve THEN "CurveMismatch"
    ELSE IF ct.ctype # ctype THEN "InconsistentCiphertext"
    ELSE "Ok"

\* the opening a recipient obtains from its entry: the plaintext when the
\* pad it derives is the pad of the entry, another scalar otherwise
mega_decrypt(ct, associated_data, dealer_index, recipient_index, private_key, public_key) ==
    LET e == ct.ctexts[recipient_index + 1]
        pad == mega_pad(dealer_index, recipient_index, associated_data,
                        public_key.v, ct.eph, (ct.eph * private_key.v) % Order)
    IN IF pad = e.pad THEN e.body
       ELSE <<(e.body[1] + 1) % Order, (e.body[2] + 1) % Order>>

\* PolynomialCommitment::check_opening: the opening matches the commitment
\* evaluated at the recipient's index
check_opening(c, recipient_index, opening) ==
    LET at == commitment_evaluate_at(c, recipient_index)
    IN IF c.ctype = "Simple" THEN at.g = opening[1] /\ at.h = 0
       ELSE at.g = opening[1] /\ at.h = opening[2]

\* MEGaCiphertext::decrypt_and_check
decrypt_and_check(ct, c, associated_data, dealer_index, recipient_index, private_key, public_key) ==
    IF recipient_index + 1 > Len(ct.ctexts) THEN "InvalidArguments"
    ELSE IF check_opening(c, recipient_index,
                mega_decrypt(ct, associated_data, dealer_index, recipient_index,
                             private_key, public_key))
    THEN "Ok"
    ELSE "InvalidCommitment"

\* ------------------------------------------------------------------------
\* Zero-knowledge proofs
\* ------------------------------------------------------------------------
NoProof == [kind |-> "None", stmt |-> <<>>, ad |-> 0]

\* zk::ProofOfEqualOpenings::create(seed, secret, masking, associated_data)
proof_of_equal_openings_create(proof_seed, secret, masking, associated_data) ==
    [kind |-> "ProofOfMaskedResharing",
     stmt |-> <<EccPoint(secret.curve, secret.v, masking.v),
                EccPoint(secret.curve, secret.v, 0)>>,
     ad |-> associated_data]

\* zk::ProofOfEqualOpenings::verify(pedersen, simple, associated_data)
proof_of_equal_openings_verify(proof, pedersen, simple, associated_data) ==
    IF proof.stmt = <<pedersen, simple>> /\ proof.ad = associated_data
    THEN "Ok" ELSE "InvalidProof"

\* zk::ProofOfProduct::create(seed, lhs, rhs, rhs_masking, product,
\* product_masking, associated_data)
proof_of_product_create(proof_seed, lhs, rhs, rhs_masking, product, product_masking, associated_data) ==
    [kind |-> "ProofOfProduct",
     stmt |-> <<EccPoint(lhs.curve, lhs.v, 0),
                EccPoint(lhs.curve, rhs.v, rhs_masking.v),
                EccPoint(lhs.curve, product.v, product_masking.v)>>,
     ad |-> associated_data]

\* zk::ProofOfProduct::verify(lhs_com, rhs_com, product_com, associated_data)
proof_of_product_verify(proof, lhs_com, rhs_com, product_com, associated_data) ==
    IF proof.stmt = <<lhs_com, rhs_com, product_com>> /\ proof.ad = associated_data
    THEN "Ok" ELSE "InvalidProof"

\* ------------------------------------------------------------------------
\* Secret shares and dealings (dealings.rs)
\* ------------------------------------------------------------------------
SecretSharesKind ==
    {"RandomUnmasked", "Random", "ReshareOfUnmasked", "ReshareOfMasked",
     "UnmaskedTimesMasked"}

\* enum SecretShares: s1, s2, s3 are the scalars of the variant, in order
SecretShares(kind, s1, s2, s3) == [kind |-> kind, s1 |-> s1, s2 |-> s2, s3 |-> s3]

NoDealing == [ciphertext |-> NoCiphertext, commitment |-> NoCommitment, proof |-> NoProof]

\* struct IDkgDealingInternal
IDkgDealingInternal(ciphertext, commitment, proof) ==
    [ciphertext |-> ciphertext, commitment |-> commitment, proof |-> proof]

\* variant with a fault: the node index of recipient i is taken one too high
encrypt_and_commit_single_polynomial_shifted(poly, num_coefficients, recipients, dealer_index, associated_data, mega_seed) ==
    LET curve == poly.curve
        plaintexts == [i \in 1..Len(recipients) |->
                         <<polynomial_evaluate_at(poly, from_node_index(curve, i)),
                           EccScalar(curve, 0)>>]
        enc == mega_encrypt("Single", mega_seed, plaintexts, recipients,
                            dealer_index, associated_data)
    IN IF enc.err # "Ok"
       THEN [err |-> enc.err, ct |-> NoCiphertext, com |-> NoCommitment,
             steps |-> <<"evaluate", "encrypt">>]
       ELSE [err |-> "Ok", ct |-> enc.ct,
             com |-> simple_commitment_create(poly, num_coefficients),
             steps |-> <<"evaluate", "encrypt", "commit">>]

encrypt_and_commit_single_polynomial(poly, num_coefficients, recipients, dealer_index, associated_data, mega_seed) ==
    LET curve == poly.curve
        plaintexts == [i \in 1..Len(recipients) |->
                         <<polynomial_evaluate_at(poly, from_node_index(curve, i - 1)),
                           EccScalar(curve, 0)>>]
        enc == mega_encrypt("Single", mega_seed, plaintexts, recipients,
                            dealer_index, associated_data)
    IN IF enc.err # "Ok"
       THEN [err |-> enc.err, ct |-> NoCiphertext, com |-> NoCommitment,
             steps |-> <<"evaluate", "encrypt">>]
       ELSE [err |-> "Ok", ct |-> enc.ct,
             com |-> simple_commitment_create(poly, num_coefficients),
             steps |-> <<"evaluate", "encrypt", "commit">>]

\* variant with a fault: the value and mask evaluations are encrypted in the wrong order
encrypt_and_commit_pair_of_polynomials_swapped(values, mask, num_coefficients, recipients, dealer_index, associated_data, mega_seed) ==
    LET curve == values.curve
        plaintexts == [i \in 1..Len(recipients) |->
                         <<polynomial_evaluate_at(mask, from_node_index(curve, i - 1)),
                           polynomial_evaluate_at(values, from_node_index(curve, i - 1))>>]
        enc == mega_encrypt("Pairs", mega_seed, plaintexts, recipients,
                            dealer_index, associated_data)
    IN IF enc.err # "Ok"
       THEN [err |-> enc.err, ct |-> NoCiphertext, com |-> NoCommitment,
             steps |-> <<"evaluate", "encrypt">>]
       ELSE [err |-> "Ok", ct |-> enc.ct,
             com |-> pedersen_commitment_create(values, mask, num_coefficients),
             steps |-> <<"evaluate", "encrypt", "commit">>]

encrypt_and_commit_pair_of_polynomials(values, mask, num_coefficients, recipients, dealer_index, associated_data, mega_seed) ==
    LET curve == values.curve
        plaintexts == [i \in 1..Len(recipients) |->
                         <<polynomial_evaluate_at(values, from_node_index(curve, i - 1)),
                           polynomial_evaluate_at(mask, from_node_index(curve, i - 1))>>]
        enc == mega_encrypt("Pairs", mega_seed, plaintexts, recipients,
                            dealer_index, associated_data)
    IN IF enc.err # "Ok"
       THEN [err |-> enc.err, ct |-> NoCiphertext, com |-> NoCommitment,
             steps |-> <<"evaluate", "encrypt">>]
       ELSE [err |-> "Ok", ct |-> enc.ct,
             com |-> pedersen_commitment_create(values, mask, num_coefficients),
             steps |-> <<"evaluate", "encrypt", "commit">>]

\* the result of new: an error and no dealing, or "Ok" and the dealing;
\* steps lists the collaborator calls made, in order
NewErr(err, steps) == [err |-> err, dealing |-> NoDealing, steps |-> steps]

\* variant with a fault: the dealing is returned without the proof
NewOk_without_proof(eac, proof, steps) ==
    [err |-> "Ok", dealing |-> IDkgDealingInternal(eac.ct, eac.com, NoProof),
     steps |-> steps]

NewOk(eac, proof, steps) ==
    [err |-> "Ok", dealing |-> IDkgDealingInternal(eac.ct, eac.com, proof), steps |-> steps]

\* variant with a fault: the zero threshold is not rejected
new_threshold_invalid_nonzero(threshold, recipients) ==
    threshold > Len(recipients)

new_threshold_invalid(threshold, recipients) ==
    threshold = 0 \/ threshold > Len(recipients)

new_random(signature_curve, num_coefficients, poly_rng, mega_seed, recipients, dealer_index, associated_data) ==
    LET values == polynomial_random(signature_curve, num_coefficients, poly_rng, 0)
        mask == polynomial_random(signature_curve, num_coefficients, poly_rng, num_coefficients)
        eac == encrypt_and_commit_pair_of_polynomials(values, mask, num_coefficients,
                   recipients, dealer_index, associated_data, mega_seed)
        sampled == <<"random_poly", "random_poly">>
    IN IF eac.err # "Ok" THEN NewErr(eac.err, sampled \o eac.steps)
       ELSE NewOk(eac, NoProof, sampled \o eac.steps)

\* variant with a fault: the unmasked random dealing also samples and commits to a mask
new_random_unmasked_masked(signature_curve, num_coefficients, poly_rng, mega_seed, recipients, dealer_index, associated_data) ==
    LET values == polynomial_random(signature_curve, num_coefficients, poly_rng, 0)
        mask == polynomial_random(signature_curve, num_coefficients, poly_rng, num_coefficients)
        eac == encrypt_and_commit_pair_of_polynomials(values, mask, num_coefficients,
                   recipients, dealer_index, associated_data, mega_seed)
        sampled == <<"random_poly", "random_poly">>
    IN IF eac.err # "Ok" THEN NewErr(eac.err, sampled \o eac.steps)
       ELSE NewOk(eac, NoProof, sampled \o eac.steps)

new_random_unmasked(signature_curve, num_coefficients, poly_rng, mega_seed, recipients, dealer_index, associated_data) ==
    LET values == polynomial_random(signature_curve, num_coefficients, poly_rng, 0)
        eac == encrypt_and_commit_single_polynomial(values, num_coefficients,
                   recipients, dealer_index, associated_data, mega_seed)
        sampled == <<"random_poly">>
    IN IF eac.err # "Ok" THEN NewErr(eac.err, sampled \o eac.steps)
       ELSE NewOk(eac, NoProof, sampled \o eac.steps)

new_reshare_of_unmasked(secret, signature_curve, num_coefficients, poly_rng, mega_seed, recipients, dealer_index, associated_data) ==
    IF secret.curve # signature_curve THEN NewErr("InvalidSecretShare", <<>>)
    ELSE
    LET values == polynomial_random_with_constant(secret, num_coefficients, poly_rng, 0)
        eac == encrypt_and_commit_single_polynomial(values, num_coefficients,
                   recipients, dealer_index, associated_data, mega_seed)
        sampled == <<"random_poly">>
    IN IF eac.err # "Ok" THEN NewErr(eac.err, sampled \o eac.steps)
       ELSE NewOk(eac, NoProof, sampled \o eac.steps)

\* variant with a fault: the curve of the masking is not checked
new_reshare_of_masked_unchecked(secret, masking, signature_curve, seed, num_coefficients, poly_rng, mega_seed, recipients, dealer_index, associated_data) ==
    IF secret.curve # signature_curve
    THEN NewErr("InvalidSecretShare", <<>>)
    ELSE
    LET values == polynomial_random_with_constant(secret, num_coefficients, poly_rng, 0)
        eac == encrypt_and_commit_single_polynomial(values, num_coefficients,
                   recipients, dealer_index, associated_data, mega_seed)
        sampled == <<"random_poly">>
        proof == proof_of_equal_openings_create(seed_derive(seed, DstEqualOpenings),
                     secret, masking, associated_data)
    IN IF eac.err # "Ok" THEN NewErr(eac.err, sampled \o eac.steps)
       ELSE NewOk(eac, proof, sampled \o eac.steps \o <<"create_proof">>)

new_reshare_of_masked(secret, masking, signature_curve, seed, num_coefficients, poly_rng, mega_seed, recipients, dealer_index, associated_data) ==
    IF secret.curve # signature_curve \/ masking.curve # signature_curve
    THEN NewErr("InvalidSecretShare", <<>>)
    ELSE
    LET values == polynomial_random_with_constant(secret, num_coefficients, poly_rng, 0)
        eac == encrypt_and_commit_single_polynomial(values, num_coefficients,
                   recipients, dealer_index, associated_data, mega_seed)
        sampled == <<"random_poly">>
        proof == proof_of_equal_openings_create(seed_derive(seed, DstEqualOpenings),
                     secret, masking, associated_data)
    IN IF eac.err # "Ok" THEN NewErr(eac.err, sampled \o eac.steps)
       ELSE NewOk(eac, proof, sampled \o eac.steps \o <<"create_proof">>)

\* variant with a fault: the proof of product is created with the factors swapped
new_unmasked_times_masked_swapped(left_value, right_value, right_masking, signature_curve, seed, num_coefficients, poly_rng, mega_seed, recipients, dealer_index, associated_data) ==
    IF \/ left_value.curve # signature_curve
       \/ right_value.curve # signature_curve
       \/ right_masking.curve # signature_curve
    THEN NewErr("InvalidSecretShare", <<>>)
    ELSE
    LET product == scalar_mul(left_value, right_value)
        product_masking == scalar_random(signature_curve, poly_rng, 0)
        values == polynomial_random_with_constant(product, num_coefficients, poly_rng, 1)
        mask == polynomial_random_with_constant(product_masking, num_coefficients,
                    poly_rng, num_coefficients)
        eac == encrypt_and_commit_pair_of_polynomials(values, mask, num_coefficients,
                   recipients, dealer_index, associated_data, mega_seed)
        sampled == <<"mul", "random_scalar", "random_poly", "random_poly">>
        proof == proof_of_product_create(seed_derive(seed, DstProduct), right_value,
                     left_value, right_masking, product, product_masking,
                     associated_data)
    IN IF eac.err # "Ok" THEN NewErr(eac.err, sampled \o eac.steps)
       ELSE NewOk(eac, proof, sampled \o eac.steps \o <<"create_proof">>)

\* variant with a fault: the proof is created before the dealing is encrypted
new_unmasked_times_masked_proof_first(left_value, right_value, right_masking, signature_curve, seed, num_coefficients, poly_rng, mega_seed, recipients, dealer_index, associated_data) ==
    IF \/ left_value.curve # signature_curve
       \/ right_value.curve # signature_curve
       \/ right_masking.curve # signature_curve
    THEN NewErr("InvalidSecretShare", <<>>)
    ELSE
    LET product == scalar_mul(left_value, right_value)
        product_masking == scalar_random(signature_curve, poly_rng, 0)
        values == polynomial_random_with_constant(product, num_coefficients, poly_rng, 1)
        mask == polynomial_random_with_constant(product_masking, num_coefficients,
                    poly_rng, num_coefficients)
        proof == proof_of_product_create(seed_derive(seed, DstProduct), left_value,
                     right_value, right_masking, product, product_masking,
                     associated_data)
        eac == encrypt_and_commit_pair_of_polynomials(values, mask, num_coefficients,
                   recipients, dealer_index, associated_data, mega_seed)
        sampled == <<"mul", "random_scalar", "random_poly", "random_poly">>
    IN IF eac.err # "Ok" THEN NewErr(eac.err, sampled \o <<"create_proof">> \o eac.steps)
       ELSE NewOk(eac, proof, sampled \o <<"create_proof">> \o eac.steps)

new_unmasked_times_masked(left_value, right_value, right_masking, signature_curve, seed, num_coefficients, poly_rng, mega_seed, recipients, dealer_index, associated_data) ==
    IF \/ left_value.curve # signature_curve
       \/ right_value.curve # signature_curve
       \/ right_masking.curve # signature_curve
    THEN NewErr("InvalidSecretShare", <<>>)
    ELSE
    LET product == scalar_mul(left_value, right_value)
        product_masking == scalar_random(signature_curve, poly_rng, 0)
        values == polynomial_random_with_constant(product, num_coefficients, poly_rng, 1)
        mask == polynomial_random_with_constant(product_masking, num_coefficients,
                    poly_rng, num_coefficients)
        eac == encrypt_and_commit_pair_of_polynomials(values, mask, num_coefficients,
                   recipients, dealer_index, associated_data, mega_seed)
        sampled == <<"mul", "random_scalar", "random_poly", "random_poly">>
        proof == proof_of_product_create(seed_derive(seed, DstProduct), left_value,
                     right_value, right_masking, product, product_masking,
                     associated_data)
    IN IF eac.err # "Ok" THEN NewErr(eac.err, sampled \o eac.steps)
       ELSE NewOk(eac, proof, sampled \o eac.steps \o <<"create_proof">>)

\* IDkgDealingInternal::new
new(shares, signature_curve, seed, threshold, recipients, dealer_index, associated_data) ==
    IF new_threshold_invalid(threshold, recipients)
    THEN NewErr("InvalidThreshold", <<>>)
    ELSE
    LET num_coefficients == threshold
        poly_rng == seed_derive(seed, DstPolynomials)
        mega_seed == seed_derive(seed, DstMegaEncrypt)
    IN CASE shares.kind = "Random" ->
              new_random(signature_curve, num_coefficients, poly_rng, mega_seed,
                         recipients, dealer_index, associated_data)
         [] shares.kind = "RandomUnmasked" ->
              new_random_unmasked(signature_curve, num_coefficients, poly_rng,
                         mega_seed, recipients, dealer_index, associated_data)
         [] shares.kind = "ReshareOfUnmasked" ->
              new_reshare_of_unmasked(shares.s1, signature_curve, num_coefficients,
                         poly_rng, mega_seed, recipients, dealer_index, associated_data)
         [] shares.kind = "ReshareOfMasked" ->
              new_reshare_of_masked(shares.s1, shares.s2, signature_curve, seed,
                         num_coefficients, poly_rng, mega_seed, recipients,
                         dealer_index, associated_data)
         [] shares.kind = "UnmaskedTimesMasked" ->
              new_unmasked_times_masked(shares.s1, shares.s2, shares.s3,
                         signature_curve, seed, num_coefficients, poly_rng,
                         mega_seed, recipients, dealer_index, associated_data)

\* ------------------------------------------------------------------------
\* Verification (dealings.rs)
\* ------------------------------------------------------------------------
IDkgTranscriptOperationKind ==
    {"Random", "RandomUnmasked", "ReshareOfMasked", "ReshareOfUnmasked",
     "UnmaskedTimesMasked"}

\* enum IDkgTranscriptOperationInternal: c1, c2 are the previous commitments
IDkgTranscriptOperationInternal(kind, c1, c2) == [kind |-> kind, c1 |-> c1, c2 |-> c2]

\* variant with a fault: the degree, not the length, is compared with the threshold
pv_length_mismatch_degree(d, reconstruction_threshold) ==
    Len(d.commitment.points) - 1 # reconstruction_threshold

\* the commitment-length check of publicly_verify
pv_length_mismatch(d, reconstruction_threshold) ==
    Len(d.commitment.points) # reconstruction_threshold

\* variant with a fault: a Simple commitment is expected for Random
pv_random_simple(d, key_curve, signature_curve) ==
    IF commitment_verify_is(d.commitment, "Simple", signature_curve) # "Ok"
    THEN commitment_verify_is(d.commitment, "Simple", signature_curve)
    ELSE ciphertext_verify_is(d.ciphertext, "Pairs", key_curve, signature_curve)

pv_random(d, key_curve, signature_curve) ==
    IF commitment_verify_is(d.commitment, "Pedersen", signature_curve) # "Ok"
    THEN commitment_verify_is(d.commitment, "Pedersen", signature_curve)
    ELSE ciphertext_verify_is(d.ciphertext, "Pairs", key_curve, signature_curve)

\* variant with a fault: the type of the ciphertext is not checked for RandomUnmasked
pv_random_unmasked_any_ciphertext(d, key_curve, signature_curve) ==
    commitment_verify_is(d.commitment, "Simple", signature_curve)

pv_random_unmasked(d, key_curve, signature_curve) ==
    IF commitment_verify_is(d.commitment, "Simple", signature_curve) # "Ok"
    THEN commitment_verify_is(d.commitment, "Simple", signature_curve)
    ELSE ciphertext_verify_is(d.ciphertext, "Single", key_curve, signature_curve)

\* variant with a fault: the proof of masked resharing is not verified
pv_reshare_of_masked_any_proof(d, key_curve, signature_curve, previous_commitment, dealer_index, associated_data) ==
    IF commitment_verify_is(d.commitment, "Simple", signature_curve) # "Ok"
    THEN commitment_verify_is(d.commitment, "Simple", signature_curve)
    ELSE IF commitment_verify_is(previous_commitment, "Pedersen", signature_curve) # "Ok"
    THEN commitment_verify_is(previous_commitment, "Pedersen", signature_curve)
    ELSE ciphertext_verify_is(d.ciphertext, "Single", key_curve, signature_curve)

pv_reshare_of_masked(d, key_curve, signature_curve, previous_commitment, dealer_index, associated_data) ==
    IF commitment_verify_is(d.commitment, "Simple", signature_curve) # "Ok"
    THEN commitment_verify_is(d.commitment, "Simple", signature_curve)
    ELSE IF commitment_verify_is(previous_commitment, "Pedersen", signature_curve) # "Ok"
    THEN commitment_verify_is(previous_commitment, "Pedersen", signature_curve)
    ELSE IF ciphertext_verify_is(d.ciphertext, "Single", key_curve, signature_curve) # "Ok"
    THEN ciphertext_verify_is(d.ciphertext, "Single", key_curve, signature_curve)
    ELSE proof_of_equal_openings_verify(d.proof,
             commitment_evaluate_at(previous_commitment, dealer_index),
             commitment_constant_term(d.commitment), associated_data)

\* variant with a fault: the type of the previous commitment is left to the
\* inner match
pv_reshare_of_unmasked_arm_inner_only(d, key_curve, signature_curve, previous_commitment, dealer_index) ==
    IF commitment_verify_is(d.commitment, "Simple", signature_curve) # "Ok"
    THEN [err |-> commitment_verify_is(d.commitment, "Simple", signature_curve),
          at |-> "commitment.verify_is"]
    ELSE IF ciphertext_verify_is(d.ciphertext, "Single", key_curve, signature_curve) # "Ok"
    THEN [err |-> ciphertext_verify_is(d.ciphertext, "Single", key_curve, signature_curve),
          at |-> "ciphertext.verify_is"]
    ELSE IF previous_commitment.ctype = "Pedersen"
    THEN [err |-> "UnexpectedCommitmentType", at |-> "match Pedersen"]
    ELSE IF commitment_evaluate_at(previous_commitment, dealer_index)
              # commitment_constant_term(d.commitment)
    THEN [err |-> "InvalidCommitment", at |-> "match Simple"]
    ELSE [err |-> "Ok", at |-> "Ok"]

\* the ReshareOfUnmasked arm of publicly_verify: what it returns, and the
\* statement that returned it
pv_reshare_of_unmasked_arm(d, key_curve, signature_curve, previous_commitment, dealer_index) ==
    IF commitment_verify_is(d.commitment, "Simple", signature_curve) # "Ok"
    THEN [err |-> commitment_verify_is(d.commitment, "Simple", signature_curve),
          at |-> "commitment.verify_is"]
    ELSE IF commitment_verify_is(previous_commitment, "Simple", signature_curve) # "Ok"
    THEN [err |-> commitment_verify_is(previous_commitment, "Simple", signature_curve),
          at |-> "previous_commitment.verify_is"]
    ELSE IF ciphertext_verify_is(d.ciphertext, "Single", key_curve, signature_curve) # "Ok"
    THEN [err |-> ciphertext_verify_is(d.ciphertext, "Single", key_curve, signature_curve),
          at |-> "ciphertext.verify_is"]
    ELSE IF previous_commitment.ctype = "Pedersen"
    THEN [err |-> "UnexpectedCommitmentType", at |-> "match Pedersen"]
    ELSE IF commitment_evaluate_at(previous_commitment, dealer_index)
              # commitment_constant_term(d.commitment)
    THEN [err |-> "InvalidCommitment", at |-> "match Simple"]
    ELSE [err |-> "Ok", at |-> "Ok"]

\* variant with a fault: the previous commitment is not compared with the constant term
pv_reshare_of_unmasked_unbound(d, key_curve, signature_curve, previous_commitment, dealer_index) ==
    IF commitment_verify_is(d.commitment, "Simple", signature_curve) # "Ok"
    THEN commitment_verify_is(d.commitment, "Simple", signature_curve)
    ELSE IF commitment_verify_is(previous_commitment, "Simple", signature_curve) # "Ok"
    THEN commitment_verify_is(previous_commitment, "Simple", signature_curve)
    ELSE IF ciphertext_verify_is(d.ciphertext, "Single", key_curve, signature_curve) # "Ok"
    THEN ciphertext_verify_is(d.ciphertext, "Single", key_curve, signature_curve)
    ELSE IF previous_commitment.ctype = "Pedersen" THEN "UnexpectedCommitmentType"
    ELSE "Ok"

pv_reshare_of_unmasked(d, key_curve, signature_curve, previous_commitment, dealer_index) ==
    pv_reshare_of_unmasked_arm(d, key_curve, signature_curve, previous_commitment,
                               dealer_index).err

pv_unmasked_times_masked(d, key_curve, signature_curve, lhs, rhs, dealer_index, associated_data) ==
    IF commitment_verify_is(d.commitment, "Pedersen", signature_curve) # "Ok"
    THEN commitment_verify_is(d.commitment, "Pedersen", signature_curve)
    ELSE IF ciphertext_verify_is(d.ciphertext, "Pairs", key_curve, signature_curve) # "Ok"
    THEN ciphertext_verify_is(d.ciphertext, "Pairs", key_curve, signature_curve)
    ELSE IF commitment_verify_is(lhs, "Simple", signature_curve) # "Ok"
    THEN commitment_verify_is(lhs, "Simple", signature_curve)
    ELSE IF commitment_verify_is(rhs, "Pedersen", signature_curve) # "Ok"
    THEN commitment_verify_is(rhs, "Pedersen", signature_curve)
    ELSE proof_of_product_verify(d.proof,
             commitment_evaluate_at(lhs, dealer_index),
             commitment_evaluate_at(rhs, dealer_index),
             commitment_constant_term(d.commitment), associated_data)

\* variant with a fault: a ReshareOfUnmasked dealing is accepted with any proof
pv_dispatch_open(d, key_curve, signature_curve, transcript_type, dealer_index, associated_data) ==
    CASE transcript_type.kind = "Random" /\ d.proof.kind = "None" ->
            pv_random(d, key_curve, signature_curve)
      [] transcript_type.kind = "RandomUnmasked" /\ d.proof.kind = "None" ->
            pv_random_unmasked(d, key_curve, signature_curve)
      [] transcript_type.kind = "ReshareOfMasked"
            /\ d.proof.kind = "ProofOfMaskedResharing" ->
            pv_reshare_of_masked(d, key_curve, signature_curve, transcript_type.c1,
                                 dealer_index, associated_data)
      [] transcript_type.kind = "ReshareOfUnmasked" ->
            pv_reshare_of_unmasked(d, key_curve, signature_curve, transcript_type.c1,
                                   dealer_index)
      [] transcript_type.kind = "UnmaskedTimesMasked"
            /\ d.proof.kind = "ProofOfProduct" ->
            pv_unmasked_times_masked(d, key_curve, signature_curve,
                                     transcript_type.c1, transcript_type.c2,
                                     dealer_index, associated_data)
      [] OTHER -> "InvalidProof"

\* the match on (transcript_type, self.proof) of publicly_verify
pv_dispatch(d, key_curve, signature_curve, transcript_type, dealer_index, associated_data) ==
    CASE transcript_type.kind = "Random" /\ d.proof.kind = "None" ->
            pv_random(d, key_curve, signature_curve)
      [] transcript_type.kind = "RandomUnmasked" /\ d.proof.kind = "None" ->
            pv_random_unmasked(d, key_curve, signature_curve)
      [] transcript_type.kind = "ReshareOfMasked"
            /\ d.proof.kind = "ProofOfMaskedResharing" ->
            pv_reshare_of_masked(d, key_curve, signature_curve, transcript_type.c1,
                                 dealer_index, associated_data)
      [] transcript_type.kind = "ReshareOfUnmasked" /\ d.proof.kind = "None" ->
            pv_reshare_of_unmasked(d, key_curve, signature_curve, transcript_type.c1,
                                   dealer_index)
      [] transcript_type.kind = "UnmaskedTimesMasked"
            /\ d.proof.kind = "ProofOfProduct" ->
            pv_unmasked_times_masked(d, key_curve, signature_curve,
                                     transcript_type.c1, transcript_type.c2,
                                     dealer_index, associated_data)
      [] OTHER -> "InvalidProof"

\* the statements of publicly_verify that returned the result, outermost
\* first; inside the match only the ReshareOfUnmasked arm is told apart
publicly_verify_exit(d, key_curve, signature_curve, transcript_type, reconstruction_threshold, dealer_index, number_of_receivers, associated_data) ==
    IF pv_length_mismatch(d, reconstruction_threshold) THEN <<"commitment.len">>
    ELSE IF check_validity(d.ciphertext, number_of_receivers, associated_data,
                           dealer_index) # "Ok"
    THEN <<"check_validity">>
    ELSE IF transcript_type.kind = "ReshareOfUnmasked" /\ d.proof.kind = "None"
    THEN <<"match", pv_reshare_of_unmasked_arm(d, key_curve, signature_curve,
                        transcript_type.c1, dealer_index).at>>
    ELSE <<"match">>

\* variant with a fault: the (operation, proof) dispatch runs before the
\* validity check of the ciphertext
publicly_verify_dispatch_first(d, key_curve, signature_curve, transcript_type, reconstruction_threshold, dealer_index, number_of_receivers, associated_data) ==
    IF pv_length_mismatch(d, reconstruction_threshold) THEN "InvalidCommitment"
    ELSE IF pv_dispatch(d, key_curve, signature_curve, transcript_type, dealer_index,
                        associated_data) # "Ok"
    THEN pv_dispatch(d, key_curve, signature_curve, transcript_type, dealer_index,
                     associated_data)
    ELSE check_validity(d.ciphertext, number_of_receivers, associated_data, dealer_index)

\* IDkgDealingInternal::publicly_verify
publicly_verify(d, key_curve, signature_curve, transcript_type, reconstruction_threshold, dealer_index, number_of_receivers, associated_data) ==
    IF pv_length_mismatch(d, reconstruction_threshold) THEN "InvalidCommitment"
    ELSE IF check_validity(d.ciphertext, number_of_receivers, associated_data,
                           dealer_index) # "Ok"
    THEN check_validity(d.ciphertext, number_of_receivers, associated_data, dealer_index)
    ELSE pv_dispatch(d, key_curve, signature_curve, transcript_type, dealer_index,
                     associated_data)

\* variant with a fault: the curve of the public key is not checked
priv_curve_mismatch_private_only(d, key_curve, signature_curve, private_key, public_key) ==
    \/ private_key.curve # key_curve
    \/ d.commitment.curve # signature_curve

\* the curve checks of privately_verify
priv_curve_mismatch(d, key_curve, signature_curve, private_key, public_key) ==
    \/ private_key.curve # key_curve \/ public_key.curve # key_curve
    \/ d.commitment.curve # signature_curve

\* variant with a fault: a Single ciphertext is expected whatever the commitment
priv_mega_type_single(d) == "Single"

\* the ciphertext type privately_verify expects for the commitment
priv_mega_type(d) == IF d.commitment.ctype = "Simple" THEN "Single" ELSE "Pairs"

\* variant with a fault: the share is not decrypted and checked
privately_verify_no_decrypt(d, key_curve, signature_curve, private_key, public_key, associated_data, dealer_index, recipient_index) ==
    IF priv_curve_mismatch(d, key_curve, signature_curve, private_key, public_key)
    THEN [err |-> "CurveMismatch", steps |-> <<>>]
    ELSE IF ciphertext_verify_is(d.ciphertext, priv_mega_type(d), key_curve,
                                 signature_curve) # "Ok"
    THEN [err |-> ciphertext_verify_is(d.ciphertext, priv_mega_type(d), key_curve,
                                       signature_curve),
          steps |-> <<"verify_is">>]
    ELSE [err |-> "Ok", steps |-> <<"verify_is">>]

\* IDkgDealingInternal::privately_verify; steps lists the calls on the
\* ciphertext, in order
privately_verify(d, key_curve, signature_curve, private_key, public_key, associated_data, dealer_index, recipient_index) ==
    IF priv_curve_mismatch(d, key_curve, signature_curve, private_key, public_key)
    THEN [err |-> "CurveMismatch", steps |-> <<>>]
    ELSE IF ciphertext_verify_is(d.ciphertext, priv_mega_type(d), key_curve,
                                 signature_curve) # "Ok"
    THEN [err |-> ciphertext_verify_is(d.ciphertext, priv_mega_type(d), key_curve,
                                       signature_curve),
          steps |-> <<"verify_is">>]
    ELSE [err |-> decrypt_and_check(d.ciphertext, d.commitment, associated_data,
                      dealer_index, recipient_index, private_key, public_key),
          steps |-> <<"verify_is", "decrypt_and_check">>]

\* ------------------------------------------------------------------------
\* Serialization (dealings.rs, serde_cbor): a dealing is written as a sequence
\* of bytes, field after field, each variable-length part after its length
\* ------------------------------------------------------------------------
curve_tag(curve) == CASE curve = "K256" -> 1 [] curve = "P256" -> 2 [] OTHER -> 0

tag_curve(tag) == CASE tag = 1 -> "K256" [] tag = 2 -> "P256" [] OTHER -> "none"

RECURSIVE cbor_concat(_, _)
cbor_concat(parts, i) ==
    IF i > Len(parts) THEN <<>> ELSE parts[i] \o cbor_concat(parts, i + 1)

\* the bytes of a ciphertext: type, curves, ephemeral key, proof of possession,
\* then one entry per recipient (one scalar for Single, two for Pairs)
cbor_ciphertext(ct) ==
    <<IF ct.ctype = "Single" THEN 1 ELSE 2, curve_tag(ct.key_curve),
      curve_tag(ct.pt_curve), ct.eph, ct.pop[1], ct.pop[2], Len(ct.ctexts)>>
    \o cbor_concat([i \in 1..Len(ct.ctexts) |->
                      (IF ct.ctype = "Single" THEN <<ct.ctexts[i].body[1]>>
                       ELSE ct.ctexts[i].body) \o ct.ctexts[i].pad], 1)

\* the bytes of a commitment: type, curve, then the points
cbor_commitment(c) ==
    <<IF c.ctype = "Simple" THEN 1 ELSE 2, curve_tag(c.curve), Len(c.points)>>
    \o cbor_concat([i \in 1..Len(c.points) |-> <<c.points[i].g, c.points[i].h>>], 1)

\* the bytes of Option<ZkProof>: 0 for None, else the variant, the associated
\* data and the points of the statement
cbor_proof(proof) ==
    IF proof.kind = "None" THEN <<0>>
    ELSE <<IF proof.kind = "ProofOfMaskedResharing" THEN 1 ELSE 2, proof.ad>>
         \o cbor_concat([i \in 1..Len(proof.stmt) |->
                           <<curve_tag(proof.stmt[i].curve), proof.stmt[i].g,
                             proof.stmt[i].h>>], 1)

\* serde_cbor::to_vec(dealing)
cbor_to_vec(d) ==
    cbor_ciphertext(d.ciphertext) \o cbor_commitment(d.commitment) \o cbor_proof(d.proof)

cbor_fail == [ok |-> FALSE, v |-> <<>>, next |-> 0]

\* reads a ciphertext at position p
cbor_read_ciphertext(b, p) ==
    IF p + 6 > Len(b) THEN cbor_fail
    ELSE LET single == b[p] = 1
             n == b[p + 6]
             w == IF single THEN 7 ELSE 8
             end == p + 6 + n * w
         IN IF \/ b[p] \notin {1, 2}
               \/ b[p + 1] \notin {1, 2}
               \/ b[p + 2] \notin {1, 2}
               \/ end > Len(b)
            THEN cbor_fail
            ELSE [ok |-> TRUE,
                  v |-> [ctype |-> IF single THEN "Single" ELSE "Pairs",
                         key_curve |-> tag_curve(b[p + 1]),
                         pt_curve |-> tag_curve(b[p + 2]),
                         eph |-> b[p + 3],
                         pop |-> <<b[p + 4], b[p + 5]>>,
                         ctexts |-> [i \in 1..n |->
                            LET q == p + 7 + (i - 1) * w
                            IN [body |-> IF single THEN <<b[q], 0>>
                                         ELSE <<b[q], b[q + 1]>>,
                                pad |-> SubSeq(b, q + w - 6, q + w - 1)]]],
                  next |-> end + 1]

\* reads a commitment at position p
cbor_read_commitment(b, p) ==
    IF p + 2 > Len(b) THEN cbor_fail
    ELSE LET m == b[p + 2]
             end == p + 2 + 2 * m
         IN IF b[p] \notin {1, 2} \/ b[p + 1] \notin {1, 2} \/ end > Len(b)
            THEN cbor_fail
            ELSE [ok |-> TRUE,
                  v |-> [ctype |-> IF b[p] = 1 THEN "Simple" ELSE "Pedersen",
                         curve |-> tag_curve(b[p + 1]),
                         points |-> [i \in 1..m |->
                                       [g |-> b[p + 1 + 2 * i], h |-> b[p + 2 + 2 * i]]]],
                  next |-> end + 1]

\* reads an optional proof at position p
cbor_read_proof(b, p) ==
    IF p > Len(b) THEN cbor_fail
    ELSE IF b[p] = 0 THEN [ok |-> TRUE, v |-> NoProof, next |-> p + 1]
    ELSE LET k == IF b[p] = 1 THEN 2 ELSE 3
             end == p + 1 + 3 * k
         IN IF \/ b[p] \notin {1, 2}
               \/ end > Len(b)
               \/ \E i \in 1..k : b[p - 1 + 3 * i] \notin {1, 2}
            THEN cbor_fail
            ELSE [ok |-> TRUE,
                  v |-> [kind |-> IF b[p] = 1 THEN "ProofOfMaskedResharing"
                                  ELSE "ProofOfProduct",
                         stmt |-> [i \in 1..k |->
                                     EccPoint(tag_curve(b[p - 1 + 3 * i]),
                                              b[p + 3 * i], b[p + 1 + 3 * i])],
                         ad |-> b[p + 1]],
                  next |-> end + 1]

\* serde_cbor::from_slice::<IDkgDealingInternal>(bytes): the three fields, and
\* nothing after them
cbor_from_slice(bytes) ==
    LET ct == cbor_read_ciphertext(bytes, 1)
        com == cbor_read_commitment(bytes, ct.next)
        proof == cbor_read_proof(bytes, com.next)
    IN IF ~ct.ok THEN cbor_fail
       ELSE IF ~com.ok THEN cbor_fail
       ELSE IF ~proof.ok THEN cbor_fail
       ELSE IF proof.next # Len(bytes) + 1 THEN cbor_fail
       ELSE [ok |-> TRUE, v |-> IDkgDealingInternal(ct.v, com.v, proof.v),
             next |-> proof.next]

\* IDkgDealingInternal::serialize
serialize(d) == [err |-> "Ok", bytes |-> cbor_to_vec(d)]

\* variant with a fault: the decoding error is swallowed and an empty dealing returned
deserialize_or_default(bytes) ==
    LET r == cbor_from_slice(bytes)
    IN IF r.ok THEN [err |-> "Ok", dealing |-> r.v]
       ELSE [err |-> "Ok", dealing |-> NoDealing]

\* IDkgDealingInternal::deserialize
deserialize(bytes) ==
    LET r == cbor_from_slice(bytes)
    IN IF r.ok THEN [err |-> "Ok", dealing |-> r.v]
       ELSE [err |-> "ThresholdEcdsaSerializationError", dealing |-> NoDealing]

\* TryFrom<&BatchSignedIDkgDealing>: internal_dealing_raw is deserialized
try_from_signed_dealing(internal_dealing_raw) == deserialize(internal_dealing_raw)

\* ------------------------------------------------------------------------
\* Secret shares from commitment openings (dealings.rs)
\* ------------------------------------------------------------------------
\* EccScalarBytes: the curve and the encoded value
EccScalarBytes(curve, byte) == [curve |-> curve, byte |-> byte]

NoBytes == [curve |-> "none", byte |-> 0]

\* EccScalar::try_from(bytes): an encoding that is not below the order of
\* the scalar field does not decode
scalar_try_from(bytes) ==
    IF bytes.byte < Order
    THEN [err |-> "Ok", scalar |-> EccScalar(bytes.curve, bytes.byte)]
    ELSE [err |-> "ThresholdEcdsaSerializationError", scalar |-> NoScalar]

\* enum CommitmentOpeningBytes: Simple(bytes) or Pedersen(bytes, bytes)
CommitmentOpeningBytes(ctype, b1, b2) == [ctype |-> ctype, b1 |-> b1, b2 |-> b2]

\* the absent second opening
NoOpening == CommitmentOpeningBytes("None", NoBytes, NoBytes)

NoShares == SecretShares("none", NoScalar, NoScalar, NoScalar)

TryFromErr == [err |-> "ThresholdEcdsaSerializationError", shares |-> NoShares]

\* variant with a fault: the value and the mask of the second opening are swapped
try_from_swapped(first, second) ==
    CASE first.ctype = "Simple" /\ second = NoOpening ->
            LET scalar == scalar_try_from(first.b1)
            IN IF scalar.err # "Ok" THEN TryFromErr
               ELSE [err |-> "Ok",
                     shares |-> SecretShares("ReshareOfUnmasked", scalar.scalar,
                                             NoScalar, NoScalar)]
      [] first.ctype = "Pedersen" /\ second = NoOpening ->
            LET scalar1 == scalar_try_from(first.b1)
                scalar2 == scalar_try_from(first.b2)
            IN IF scalar1.err # "Ok" THEN TryFromErr
               ELSE IF scalar2.err # "Ok" THEN TryFromErr
               ELSE [err |-> "Ok",
                     shares |-> SecretShares("ReshareOfMasked", scalar1.scalar,
                                             scalar2.scalar, NoScalar)]
      [] first.ctype = "Simple" /\ second.ctype = "Pedersen" ->
            LET scalar_1 == scalar_try_from(first.b1)
                scalar_2 == scalar_try_from(second.b2)
                scalar_3 == scalar_try_from(second.b1)
            IN IF scalar_1.err # "Ok" THEN TryFromErr
               ELSE IF scalar_2.err # "Ok" THEN TryFromErr
               ELSE IF scalar_3.err # "Ok" THEN TryFromErr
               ELSE [err |-> "Ok",
                     shares |-> SecretShares("UnmaskedTimesMasked", scalar_1.scalar,
                                             scalar_2.scalar, scalar_3.scalar)]
      [] OTHER -> TryFromErr

\* SecretShares::try_from((opening, optional second opening))
try_from(first, second) ==
    CASE first.ctype = "Simple" /\ second = NoOpening ->
            LET scalar == scalar_try_from(first.b1)
            IN IF scalar.err # "Ok" THEN TryFromErr
               ELSE [err |-> "Ok",
                     shares |-> SecretShares("ReshareOfUnmasked", scalar.scalar,
                                             NoScalar, NoScalar)]
      [] first.ctype = "Pedersen" /\ second = NoOpening ->
            LET scalar1 == scalar_try_from(first.b1)
                scalar2 == scalar_try_from(first.b2)
            IN IF scalar1.err # "Ok" THEN TryFromErr
               ELSE IF scalar2.err # "Ok" THEN TryFromErr
               ELSE [err |-> "Ok",
                     shares |-> SecretShares("ReshareOfMasked", scalar1.scalar,
                                             scalar2.scalar, NoScalar)]
      [] first.ctype = "Simple" /\ second.ctype = "Pedersen" ->
            LET scalar_1 == scalar_try_from(first.b1)
                scalar_2 == scalar_try_from(second.b1)
                scalar_3 == scalar_try_from(second.b2)
            IN IF scalar_1.err # "Ok" THEN TryFromErr
               ELSE IF scalar_2.err # "Ok" THEN TryFromErr
               ELSE IF scalar_3.err # "Ok" THEN TryFromErr
               ELSE [err |-> "Ok",
                     shares |-> SecretShares("UnmaskedTimesMasked", scalar_1.scalar,
                                             scalar_2.scalar, scalar_3.scalar)]
      [] OTHER -> TryFromErr

\* ------------------------------------------------------------------------
\* State modifications of a sandboxed execution (canister_sandbox structs.rs)
\* ------------------------------------------------------------------------
WASM_PAGE_SIZE_IN_BYTES == 65536

\* usize::MAX and u64::MAX; the sandbox runs on a target where both have the
\* width of the machine word
WordMax == 2^WordBits - 1

\* usize::saturating_mul
saturating_mul(a, b) ==
    IF b # 0 /\ a > WordMax \div b THEN WordMax ELSE a * b

\* u64::saturating_add
saturating_add(a, b) ==
    IF a > WordMax - b THEN WordMax ELSE a + b

\* Ord::max on NumWasmPages
pages_max(a, b) == IF a >= b THEN a ELSE b

\* the sizes of the memories in an ExecutionState
ExecutionState(wasm_pages, stable_pages) ==
    [wasm_memory |-> [size |-> wasm_pages], stable_memory |-> [size |-> stable_pages]]

\* struct StateModifications: the sizes of the memories after the execution
\* and the allocated request bytes of its system state changes
StateModifications(wasm_pages, stable_pages, request_bytes) ==
    [wasm_memory |-> [size |-> wasm_pages], stable_memory |-> [size |-> stable_pages],
     system_state_changes |-> [allocated_request_bytes |-> request_bytes]]

\* variant with a fault: the sums wrap around
allocated_bytes_wrapping(self, execution_state) ==
    LET old_wasm_pages == execution_state.wasm_memory.size
        new_wasm_pages == self.wasm_memory.size
        added_wasm_pages == pages_max(new_wasm_pages, old_wasm_pages) - old_wasm_pages
        added_wasm_bytes == saturating_mul(added_wasm_pages, WASM_PAGE_SIZE_IN_BYTES)
        old_stable_pages == execution_state.stable_memory.size
        new_stable_pages == self.stable_memory.size
        added_stable_pages ==
            pages_max(new_stable_pages, old_stable_pages) - old_stable_pages
        added_stable_bytes == saturating_mul(added_stable_pages, WASM_PAGE_SIZE_IN_BYTES)
        added_message_bytes == self.system_state_changes.allocated_request_bytes
        added_total_bytes ==
            (((added_wasm_bytes + added_stable_bytes) % (WordMax + 1))
                + added_message_bytes) % (WordMax + 1)
    IN <<added_total_bytes, added_message_bytes>>

\* StateModifications::allocated_bytes: the pair (total, message)
allocated_bytes(self, execution_state) ==
    LET old_wasm_pages == execution_state.wasm_memory.size
        new_wasm_pages == self.wasm_memory.size
        added_wasm_pages == pages_max(new_wasm_pages, old_wasm_pages) - old_wasm_pages
        added_wasm_bytes == saturating_mul(added_wasm_pages, WASM_PAGE_SIZE_IN_BYTES)
        old_stable_pages == execution_state.stable_memory.size
        new_stable_pages == self.stable_memory.size
        added_stable_pages ==
            pages_max(new_stable_pages, old_stable_pages) - old_stable_pages
        added_stable_bytes == saturating_mul(added_stable_pages, WASM_PAGE_SIZE_IN_BYTES)
        added_message_bytes == self.system_state_changes.allocated_request_bytes
        added_total_bytes ==
            saturating_add(saturating_add(added_wasm_bytes, added_stable_bytes),
                           added_message_bytes)
    IN <<added_total_bytes, added_message_bytes>>

\* ------------------------------------------------------------------------
\* The state machine: one construction, then one verification of its dealing
\* ------------------------------------------------------------------------
VARIABLES
    pc,                \* "start", "constructed", "received" or "verified"
    shares,            \* the arguments of IDkgDealingInternal::new
    signature_curve,
    seed,
    threshold,
    recipients,
    dealer_index,
    associated_data,
    result,            \* what new returned
    vcall,             \* the arguments of the verification call
    vresult,           \* what the verification returned
    received,          \* a dealing taken off the wire: what was sent, its bytes,
                       \* and what deserialize returned
    text,              \* what formatting the descriptor with Debug wrote
    opened,            \* a pair of commitment openings and what
                       \* SecretShares::try_from returned for it
    allocated          \* a state modification, the old execution state and
                       \* what allocated_bytes returned for them

vars == <<pc, shares, signature_curve, seed, threshold, recipients, dealer_index,
          associated_data, result, vcall, vresult, received, text, opened,
          allocated>>

args == <<shares, signature_curve, seed, threshold, recipients, dealer_index,
          associated_data>>

NoResult == [err |-> "none", dealing |-> NoDealing, steps |-> <<>>]

NoKey == [curve |-> "none", v |-> 0]

NoOperation == IDkgTranscriptOperationInternal("none", NoCommitment, NoCommitment)

NoCall ==
    [fn |-> "none", key_curve |-> "none", signature_curve |-> "none",
     transcript_type |-> NoOperation, reconstruction_threshold |-> 0,
     dealer_index |-> 0, number_of_receivers |-> 0, associated_data |-> 0,
     private_key |-> NoKey, public_key |-> NoKey, recipient_index |-> 0]

NoVerdict == [err |-> "none", steps |-> <<>>]

NoReceived == [sent |-> NoDealing, bytes |-> <<>>, err |-> "none", dealing |-> NoDealing]

NoText == "none"

NoAllocated ==
    [old_wasm_pages |-> 0, new_wasm_pages |-> 0, old_stable_pages |-> 0,
     new_stable_pages |-> 0, request_bytes |-> 0, called |-> FALSE, total |-> 0,
     message |-> 0]

NoOpened == [first |-> NoOpening, second |-> NoOpening, err |-> "none", shares |-> NoShares]

\* the scalars a descriptor may embed
Scalars(curves) == {EccScalar(c, v) : c \in curves, v \in 1..MaxSecret}

\* the descriptors whose scalars are on the given curves
SharesOn(curves) ==
    {SecretShares(k, NoScalar, NoScalar, NoScalar) : k \in {"Random", "RandomUnmasked"}}
    \cup {SecretShares("ReshareOfUnmasked", s, NoScalar, NoScalar) : s \in Scalars(curves)}
    \cup {SecretShares("ReshareOfMasked", s, m, NoScalar) :
             s \in Scalars(curves), m \in Scalars(curves)}
    \cup {SecretShares("UnmaskedTimesMasked", l, r, m) :
             l \in Scalars(curves), r \in Scalars(curves), m \in Scalars(curves)}

\* the recipient lists: public keys on one curve
RecipientLists(curves, lens) ==
    UNION {{[i \in 1..n |-> MEGaPublicKey(c, ks[i])] : ks \in [1..n -> 1..MaxKey]} :
              c \in curves, n \in lens}

\* the inputs of new drawn from the given sets
InitWith(share_curves, seeds, key_curves, lens, dealers, ads) ==
    /\ pc = "start"
    /\ signature_curve \in EccCurveType
    /\ shares \in SharesOn(share_curves)
    /\ seed \in seeds
    /\ recipients \in RecipientLists(key_curves, lens)
    /\ threshold \in 0..(MaxRecipients + 1)
    /\ dealer_index \in dealers
    /\ associated_data \in ads
    /\ result = NoResult
    /\ vcall = NoCall
    /\ vresult = NoVerdict
    /\ received = NoReceived
    /\ text = NoText
    /\ opened = NoOpened
    /\ allocated = NoAllocated

\* new accepts the inputs: the threshold is valid and the scalars are on the
\* signature curve
Accepted ==
    /\ threshold >= 1 /\ threshold <= Len(recipients)
    /\ \A s \in {shares.s1, shares.s2, shares.s3} :
          s = NoScalar \/ s.curve = signature_curve

\* every input of new, accepted or not
Init ==
    InitWith(EccCurveType, 0..MaxSeed, {"K256"}, 0..MaxRecipients, 0..MaxDealer,
             0..MaxAD)

\* the call of IDkgDealingInternal::new
New ==
    /\ pc = "start"
    /\ result' = new(shares, signature_curve, seed, threshold, recipients,
                     dealer_index, associated_data)
    /\ pc' = "constructed"
    /\ UNCHANGED <<args, vcall, vresult, received, text, opened, allocated>>

Next == New

Spec == Init /\ [][Next]_vars

\* ------------------------------------------------------------------------
\* Public verification of a constructed dealing
\* ------------------------------------------------------------------------
\* previous commitments: to the polynomial a + x (Simple), or to the value
\* polynomial a + x and the constant mask polynomial b (Pedersen)
PrevCommitments(curves, avals) ==
    {[ctype |-> "Simple", curve |-> c,
      points |-> <<[g |-> a, h |-> 0], [g |-> 1, h |-> 0]>>] :
         c \in curves, a \in avals}
    \cup {[ctype |-> "Pedersen", curve |-> c,
           points |-> <<[g |-> a, h |-> b], [g |-> 1, h |-> 0]>>] :
         c \in curves, a \in avals, b \in 1..MaxSecret}

\* the transcript operations over the given previous commitments
Operations(prevs) ==
    {IDkgTranscriptOperationInternal(k, NoCommitment, NoCommitment) :
        k \in {"Random", "RandomUnmasked"}}
    \cup {IDkgTranscriptOperationInternal(k, p, NoCommitment) :
             k \in {"ReshareOfMasked", "ReshareOfUnmasked"}, p \in prevs}
    \cup UNION {{IDkgTranscriptOperationInternal("UnmaskedTimesMasked", l, r) :
                     r \in {q \in prevs : q.curve = l.curve}} : l \in prevs}

PublicCall(key_curve, sig_curve, transcript_type, reconstruction_threshold, dealer, number_of_receivers, ad) ==
    [NoCall EXCEPT !.fn = "publicly_verify",
                   !.key_curve = key_curve,
                   !.signature_curve = sig_curve,
                   !.transcript_type = transcript_type,
                   !.reconstruction_threshold = reconstruction_threshold,
                   !.dealer_index = dealer,
                   !.number_of_receivers = number_of_receivers,
                   !.associated_data = ad]

PubliclyVerify(call) ==
    /\ vcall' = call
    /\ vresult' =
          [err |-> publicly_verify(result.dealing, call.key_curve,
                       call.signature_curve, call.transcript_type,
                       call.reconstruction_threshold, call.dealer_index,
                       call.number_of_receivers, call.associated_data),
           steps |-> publicly_verify_exit(result.dealing, call.key_curve,
                       call.signature_curve, call.transcript_type,
                       call.reconstruction_threshold, call.dealer_index,
                       call.number_of_receivers, call.associated_data)]
    /\ pc' = "verified"
    /\ UNCHANGED <<args, result, received, text, opened, allocated>>

\* a node verifies the dealing with the parameters of the transcript it was
\* created for, under any transcript operation
PubliclyVerifyInContext ==
    /\ pc = "constructed"
    /\ result.err = "Ok"
    /\ \E op \in Operations(PrevCommitments(EccCurveType, 0..(MaxSecret - 1))) :
          PubliclyVerify(PublicCall(recipients[1].curve, signature_curve, op,
                                    threshold, dealer_index, Len(recipients),
                                    associated_data))

\* a node verifies the dealing with any parameters, under the transcript
\* operations over the previous commitments to the polynomial x
PubliclyVerifyOutOfContext ==
    /\ pc = "constructed"
    /\ result.err = "Ok"
    /\ \E kc \in EccCurveType, sc \in EccCurveType,
          op \in Operations({p \in PrevCommitments({signature_curve}, {0}) :
                                p.points[1].h \in {0, 1}}),
          rt \in 1..MaxRecipients, di \in 0..MaxDealer,
          nr \in 1..MaxRecipients, ad \in 0..MaxAD :
          PubliclyVerify(PublicCall(kc, sc, op, rt, di, nr, ad))

\* the recipients of public verification: recipient i holds key i
FixedRecipients(n) == [i \in 1..n |-> MEGaPublicKey("K256", ((i - 1) % MaxKey) + 1)]

InitPub ==
    /\ InitWith({signature_curve}, {0}, {"K256"}, 1..MaxRecipients, 0..MaxDealer, {0})
    /\ recipients = FixedRecipients(Len(recipients))
    /\ threshold \in 1..Len(recipients)

NextPub == New \/ PubliclyVerifyInContext \/ PubliclyVerifyOutOfContext

SpecPub == InitPub /\ [][NextPub]_vars

\* ------------------------------------------------------------------------
\* Private verification of a constructed dealing
\* ------------------------------------------------------------------------
MEGaKeys == {MEGaPrivateKey(c, v) : c \in EccCurveType, v \in 1..MaxKey}

PrivateCall(key_curve, sig_curve, private_key, public_key, ad, dealer, recipient_index) ==
    [NoCall EXCEPT !.fn = "privately_verify",
                   !.key_curve = key_curve,
                   !.signature_curve = sig_curve,
                   !.private_key = private_key,
                   !.public_key = public_key,
                   !.associated_data = ad,
                   !.dealer_index = dealer,
                   !.recipient_index = recipient_index]

\* a recipient verifies the dealing with any keys and parameters
PrivatelyVerify ==
    /\ pc = "constructed"
    /\ result.err = "Ok"
    /\ \E kc \in EccCurveType, sc \in EccCurveType,
          sk \in MEGaKeys, pk \in MEGaKeys,
          ad \in 0..MaxAD, di \in 0..MaxDealer,
          ri \in 0..(Len(recipients) - 1) :
        /\ vcall' = PrivateCall(kc, sc, sk, pk, ad, di, ri)
        /\ vresult' = privately_verify(result.dealing, kc, sc, sk, pk, ad, di, ri)
        /\ pc' = "verified"
        /\ UNCHANGED <<args, result, received, text, opened, allocated>>

\* the descriptor embeds one scalar value
OneValued(sh) == \A s \in {sh.s2, sh.s3} : s = NoScalar \/ s = sh.s1

InitPriv ==
    /\ InitWith({signature_curve}, {0}, {"K256"}, 1..MaxRecipients, {0}, {0})
    /\ OneValued(shares)
    /\ threshold \in 1..Len(recipients)

NextPriv == New \/ PrivatelyVerify

SpecPriv == InitPriv /\ [][NextPriv]_vars

\* ------------------------------------------------------------------------
\* ------------------------------------------------------------------------
\* Verification of a dealing taken off the wire
\* ------------------------------------------------------------------------
\* the dealings new returns for the other descriptors and associated data
AltDealings ==
    {new(sh, signature_curve, seed, threshold, recipients, dealer_index, ad).dealing :
        sh \in {s \in SharesOn({signature_curve}) : OneValued(s)}, ad \in 0..MaxAD}

\* what a dealer may send in place of the dealing d: its ciphertext with the
\* commitment and the proof of any of these dealings
Forged(d) ==
    {IDkgDealingInternal(d.ciphertext, c.commitment, p.proof) :
        c \in {d} \cup AltDealings, p \in {d} \cup AltDealings}

Corruptions == {"intact", "truncated", "trailing", "bad_tag"}

\* what the wire does to the bytes
Corrupt(bytes, how) ==
    CASE how = "intact" -> bytes
      [] how = "truncated" -> SubSeq(bytes, 1, Len(bytes) - 1)
      [] how = "trailing" -> bytes \o <<0>>
      [] how = "bad_tag" -> [bytes EXCEPT ![1] = 0]

\* a signed dealing arrives and its internal_dealing_raw is deserialized
Receive ==
    /\ pc = "constructed"
    /\ result.err = "Ok"
    /\ \E d \in Forged(result.dealing), how \in Corruptions :
          LET bytes == Corrupt(serialize(d).bytes, how)
              r == try_from_signed_dealing(bytes)
          IN received' = [sent |-> d, bytes |-> bytes, err |-> r.err,
                          dealing |-> r.dealing]
    /\ pc' = "received"
    /\ UNCHANGED <<args, result, vcall, vresult, text, opened, allocated>>

\* a node verifies the deserialized dealing with the parameters of the
\* transcript, for any dealer index and associated data, under the transcript
\* operations over the previous commitments to the polynomial x
PubliclyVerifyReceived ==
    /\ pc = "received"
    /\ received.err = "Ok"
    /\ \E op \in Operations({p \in PrevCommitments({signature_curve}, {0}) :
                                p.points[1].h \in {0, 1}}),
          di \in 0..MaxDealer, ad \in 0..MaxAD :
        /\ vcall' = PublicCall(recipients[1].curve, signature_curve, op, threshold,
                               di, Len(recipients), ad)
        /\ vresult' =
              [err |-> publicly_verify(received.dealing, recipients[1].curve,
                           signature_curve, op, threshold, di, Len(recipients), ad),
               steps |-> publicly_verify_exit(received.dealing, recipients[1].curve,
                           signature_curve, op, threshold, di, Len(recipients), ad)]
        /\ pc' = "verified"
        /\ UNCHANGED <<args, result, received, text, opened, allocated>>

\* a recipient verifies the deserialized dealing with its own key pair, for
\* any dealer index and associated data
PrivatelyVerifyReceived ==
    /\ pc = "received"
    /\ received.err = "Ok"
    /\ \E ri \in 0..(Len(recipients) - 1), di \in 0..MaxDealer, ad \in 0..MaxAD :
          LET pk == recipients[ri + 1]
              sk == MEGaPrivateKey(pk.curve, pk.v)
          IN /\ vcall' = PrivateCall(pk.curve, signature_curve, sk, pk, ad, di, ri)
             /\ vresult' = privately_verify(received.dealing, pk.curve,
                               signature_curve, sk, pk, ad, di, ri)
             /\ pc' = "verified"
             /\ UNCHANGED <<args, result, received, text, opened, allocated>>

InitRecv ==
    /\ InitWith({signature_curve}, {0}, {"K256"}, 1..MaxRecipients, {0}, {0})
    /\ OneValued(shares)
    /\ recipients = FixedRecipients(Len(recipients))
    /\ threshold \in 1..Len(recipients)

NextRecv == New \/ Receive \/ PubliclyVerifyReceived \/ PrivatelyVerifyReceived

SpecRecv == InitRecv /\ [][NextRecv]_vars

\* ------------------------------------------------------------------------
\* Construction for recipients whose keys may be on different curves
\* ------------------------------------------------------------------------
\* the recipient lists: any public keys
AnyRecipientLists(lens) == UNION {[1..n -> MEGaKeys] : n \in lens}

InitSteps ==
    /\ pc = "start"
    /\ signature_curve \in EccCurveType
    /\ shares \in {sh \in SharesOn(EccCurveType) : OneValued(sh)}
    /\ seed = 0
    /\ recipients \in AnyRecipientLists(1..MaxRecipients)
    /\ threshold \in 0..(MaxRecipients + 1)
    /\ dealer_index = 0
    /\ associated_data = 0
    /\ result = NoResult
    /\ vcall = NoCall
    /\ vresult = NoVerdict
    /\ received = NoReceived
    /\ text = NoText
    /\ opened = NoOpened
    /\ allocated = NoAllocated

NextSteps == New

SpecSteps == InitSteps /\ [][NextSteps]_vars

\* ------------------------------------------------------------------------
\* Debug formatting of the descriptor (dealings.rs)
\* ------------------------------------------------------------------------
\* variant with a fault: the formatting is derived, and writes the scalar
fmt_derived(self) ==
    CASE self.kind = "Random" -> "SecretShares::Random"
      [] self.kind = "RandomUnmasked" -> "SecretShares::RandomUnmasked"
      [] self.kind = "ReshareOfUnmasked" ->
            "SecretShares::ReshareOfUnmasked(EccScalar::" \o self.s1.curve \o "("
                \o ToString(self.s1.v) \o "))"
      [] self.kind = "ReshareOfMasked" /\ self.s1.curve = "K256" /\ self.s2.curve = "K256" ->
            "SecretShares::ReshareOfMasked(EccScalar::K256) - REDACTED"
      [] self.kind = "ReshareOfMasked" /\ self.s1.curve = "P256" /\ self.s2.curve = "P256" ->
            "SecretShares::ReshareOfMasked(EccScalar::P256) - REDACTED"
      [] self.kind = "ReshareOfMasked" /\ self.s1.curve # self.s2.curve ->
            "Unsupported curve combination in SecretShares::ReshareOfMasked!"
      [] OTHER -> "SecretShares::UnmaskedTimesMasked - REDACTED"

\* <SecretShares as Debug>::fmt: the string written to the formatter
fmt(self) ==
    CASE self.kind = "Random" -> "SecretShares::Random"
      [] self.kind = "RandomUnmasked" -> "SecretShares::RandomUnmasked"
      [] self.kind = "ReshareOfUnmasked" /\ self.s1.curve = "K256" ->
            "SecretShares::ReshareOfUnmasked(EccScalar::K256) - REDACTED"
      [] self.kind = "ReshareOfUnmasked" /\ self.s1.curve = "P256" ->
            "SecretShares::ReshareOfUnmasked(EccScalar::P256) - REDACTED"
      [] self.kind = "ReshareOfMasked" /\ self.s1.curve = "K256" /\ self.s2.curve = "K256" ->
            "SecretShares::ReshareOfMasked(EccScalar::K256) - REDACTED"
      [] self.kind = "ReshareOfMasked" /\ self.s1.curve = "P256" /\ self.s2.curve = "P256" ->
            "SecretShares::ReshareOfMasked(EccScalar::P256) - REDACTED"
      [] self.kind = "ReshareOfMasked" /\ self.s1.curve # self.s2.curve ->
            "Unsupported curve combination in SecretShares::ReshareOfMasked!"
      [] /\ self.kind = "UnmaskedTimesMasked"
         /\ self.s1.curve = "K256" /\ self.s2.curve = "K256" /\ self.s3.curve = "K256" ->
            "SecretShares::UnmaskedTimesMasked(EccScalar::K256) - REDACTED"
      [] /\ self.kind = "UnmaskedTimesMasked"
         /\ self.s1.curve = "P256" /\ self.s2.curve = "P256" /\ self.s3.curve = "P256" ->
            "SecretShares::UnmaskedTimesMasked(EccScalar::P256) - REDACTED"
      [] /\ self.kind = "UnmaskedTimesMasked"
         /\ (self.s1.curve # self.s2.curve \/ self.s2.curve # self.s3.curve) ->
            "Unsupported curve combination in SecretShares::UnmaskedTimesMasked!"

\* the descriptor is formatted with {:?}
DebugFmt ==
    /\ text = NoText
    /\ text' = fmt(shares)
    /\ UNCHANGED <<pc, args, result, vcall, vresult, received, opened, allocated>>

InitDebug == InitWith(EccCurveType, {0}, {"K256"}, {1}, {0}, {0})

NextDebug == DebugFmt

SpecDebug == InitDebug /\ [][NextDebug]_vars

\* ------------------------------------------------------------------------
\* Conversion of commitment openings into a descriptor
\* ------------------------------------------------------------------------
\* the encoded scalars: the secrets, and an encoding that is not reduced
ScalarEncodings ==
    {EccScalarBytes(c, b) : c \in EccCurveType, b \in (1..MaxSecret) \cup {Order}}

Openings ==
    {CommitmentOpeningBytes("Simple", b, NoBytes) : b \in ScalarEncodings}
    \cup {CommitmentOpeningBytes("Pedersen", b1, b2) :
             b1 \in ScalarEncodings, b2 \in ScalarEncodings}

\* the call of SecretShares::try_from
TryFrom ==
    /\ opened.err = "none"
    /\ LET r == try_from(opened.first, opened.second)
       IN opened' = [opened EXCEPT !.err = r.err, !.shares = r.shares]
    /\ UNCHANGED <<pc, args, result, vcall, vresult, received, text, allocated>>

InitOpenings ==
    /\ pc = "start"
    /\ signature_curve = "K256"
    /\ shares = SecretShares("Random", NoScalar, NoScalar, NoScalar)
    /\ seed = 0
    /\ recipients = FixedRecipients(1)
    /\ threshold = 1
    /\ dealer_index = 0
    /\ associated_data = 0
    /\ result = NoResult
    /\ vcall = NoCall
    /\ vresult = NoVerdict
    /\ received = NoReceived
    /\ text = NoText
    /\ allocated = NoAllocated
    /\ \E first \in Openings, second \in Openings \cup {NoOpening} :
          opened = [NoOpened EXCEPT !.first = first, !.second = second]

NextOpenings == TryFrom

SpecOpenings == InitOpenings /\ [][NextOpenings]_vars

\* ------------------------------------------------------------------------
\* Accounting of the bytes a sandboxed execution allocated
\* ------------------------------------------------------------------------
\* the number of pages whose bytes no longer fit the word
PagesAtMax == (WordMax + 1) \div WASM_PAGE_SIZE_IN_BYTES

\* memory sizes: small ones and the ones around the saturation of the bytes
PageCounts == {0, 1, 2, PagesAtMax - 1, PagesAtMax, PagesAtMax + 1}

\* allocated request bytes: small ones and the ones around the maximum
RequestBytes ==
    {0, 1, WASM_PAGE_SIZE_IN_BYTES, WordMax - WASM_PAGE_SIZE_IN_BYTES, WordMax - 1,
     WordMax}

\* the call of StateModifications::allocated_bytes
AllocatedBytes ==
    /\ ~allocated.called
    /\ LET r == allocated_bytes(
                    StateModifications(allocated.new_wasm_pages,
                        allocated.new_stable_pages, allocated.request_bytes),
                    ExecutionState(allocated.old_wasm_pages, allocated.old_stable_pages))
       IN allocated' = [allocated EXCEPT !.called = TRUE, !.total = r[1],
                                         !.message = r[2]]
    /\ UNCHANGED <<pc, args, result, vcall, vresult, received, text, opened>>

InitAllocated ==
    /\ pc = "start"
    /\ signature_curve = "K256"
    /\ shares = SecretShares("Random", NoScalar, NoScalar, NoScalar)
    /\ seed = 0
    /\ recipients = FixedRecipients(1)
    /\ threshold = 1
    /\ dealer_index = 0
    /\ associated_data = 0
    /\ result = NoResult
    /\ vcall = NoCall
    /\ vresult = NoVerdict
    /\ received = NoReceived
    /\ text = NoText
    /\ opened = NoOpened
    /\ \E ow \in PageCounts, nw \in PageCounts, os \in PageCounts, ns \in PageCounts,
          rb \in RequestBytes :
          allocated = [NoAllocated EXCEPT !.old_wasm_pages = ow, !.new_wasm_pages = nw,
                                          !.old_stable_pages = os,
                                          !.new_stable_pages = ns,
                                          !.request_bytes = rb]

NextAllocated == AllocatedBytes

SpecAllocated == InitAllocated /\ [][NextAllocated]_vars

\* ------------------------------------------------------------------------
\* Properties
\* ------------------------------------------------------------------------
PubVerified == pc = "verified" /\ vcall.fn = "publicly_verify"

PrivVerified == pc = "verified" /\ vcall.fn = "privately_verify"

ThresholdValid == threshold >= 1 /\ threshold <= Len(recipients)

EmbeddedScalars == {shares.s1, shares.s2, shares.s3} \ {NoScalar}

\* the commitment c is of the given type, on the signature curve, and
\* evaluates at the dealer's index to the point pt
OpensAt(c, ctype, pt) ==
    /\ c.ctype = ctype
    /\ c.curve = signature_curve
    /\ commitment_evaluate_at(c, dealer_index) = pt

\* the operation is the one the descriptor was made for: its previous
\* commitments commit to the descriptor's openings at dealer_index
MatchingOperation(op) ==
    /\ op.kind = shares.kind
    /\ CASE shares.kind = "ReshareOfUnmasked" ->
              OpensAt(op.c1, "Simple", EccPoint(signature_curve, shares.s1.v, 0))
         [] shares.kind = "ReshareOfMasked" ->
              OpensAt(op.c1, "Pedersen",
                      EccPoint(signature_curve, shares.s1.v, shares.s2.v))
         [] shares.kind = "UnmaskedTimesMasked" ->
              /\ OpensAt(op.c1, "Simple", EccPoint(signature_curve, shares.s1.v, 0))
              /\ OpensAt(op.c2, "Pedersen",
                         EccPoint(signature_curve, shares.s2.v, shares.s3.v))
         [] OTHER -> TRUE

\* the parameters of the public verification are those of the construction
MatchingParameters ==
    /\ vcall.key_curve = recipients[1].curve
    /\ vcall.signature_curve = signature_curve
    /\ vcall.reconstruction_threshold = threshold
    /\ vcall.number_of_receivers = Len(recipients)
    /\ vcall.dealer_index = dealer_index
    /\ vcall.associated_data = associated_data

OwnKeyPair(i) ==
    /\ vcall.public_key = recipients[i + 1]
    /\ vcall.private_key = MEGaPrivateKey(recipients[i + 1].curve, recipients[i + 1].v)

\* C2: private completeness. For a dealing returned by new, privately_verify
\* returns Ok for every recipient index when called with that recipient's own
\* key pair, the dealer index and associated data of the construction, and
\* the key and signature curves of the construction.
C2_PrivateCompleteness ==
    (/\ PrivVerified
     /\ OwnKeyPair(vcall.recipient_index)
     /\ vcall.key_curve = recipients[1].curve
     /\ vcall.signature_curve = signature_curve
     /\ vcall.dealer_index = dealer_index
     /\ vcall.associated_data = associated_data)
        => vresult.err = "Ok"

C2_Witness ==
    /\ PrivVerified
    /\ OwnKeyPair(vcall.recipient_index)
    /\ vcall.recipient_index = 1
    /\ recipients[1] # recipients[2]
    /\ result.dealing.commitment.ctype = "Pedersen"
    /\ result.dealing.ciphertext.ctype = "Pairs"
    /\ vresult.err = "Ok"

\* C3: new returns InvalidThreshold, and no dealing, whenever threshold is 0
\* or exceeds recipients.len(), for every descriptor variant, also when an
\* embedded scalar is on the wrong curve.
C3_InvalidThreshold ==
    (pc # "start" /\ (threshold = 0 \/ threshold > Len(recipients)))
        => (result.err = "InvalidThreshold" /\ result.dealing = NoDealing)

C3_Witness ==
    /\ pc = "constructed"
    /\ shares.kind = "UnmaskedTimesMasked"
    /\ shares.s3.curve # signature_curve
    /\ Len(recipients) = 2
    /\ threshold = 3
    /\ result.err = "InvalidThreshold"

\* the (operation, proof) pairs publicly_verify enumerates
EnumeratedPairs ==
    {<<"Random", "None">>, <<"RandomUnmasked", "None">>,
     <<"ReshareOfMasked", "ProofOfMaskedResharing">>,
     <<"ReshareOfUnmasked", "None">>,
     <<"UnmaskedTimesMasked", "ProofOfProduct">>}

Enumerated == <<vcall.transcript_type.kind, result.dealing.proof.kind>> \in EnumeratedPairs

LengthCheckPasses ==
    Len(result.dealing.commitment.points) = vcall.reconstruction_threshold

ValidityCheckPasses ==
    check_validity(result.dealing.ciphertext, vcall.number_of_receivers,
                   vcall.associated_data, vcall.dealer_index) = "Ok"

\* C4: fail-closed dispatch. When the commitment-length check and the
\* ciphertext validity check pass, publicly_verify returns InvalidProof for
\* every (operation, proof) pair that is not one of the five enumerated ones.
C4_FailClosedDispatch ==
    (PubVerified /\ LengthCheckPasses /\ ValidityCheckPasses /\ ~Enumerated)
        => vresult.err = "InvalidProof"

C4_Witness ==
    /\ PubVerified /\ LengthCheckPasses /\ ValidityCheckPasses
    /\ vcall.transcript_type.kind = "ReshareOfUnmasked"
    /\ result.dealing.proof.kind = "ProofOfMaskedResharing"
    /\ OpensAt(vcall.transcript_type.c1, "Simple",
               commitment_constant_term(result.dealing.commitment))
    /\ vresult.err = "InvalidProof"

TypeMismatchErrors == {"UnexpectedCommitmentType", "InconsistentCiphertext"}

OtherOperations ==
    {"Random", "ReshareOfMasked", "ReshareOfUnmasked", "UnmaskedTimesMasked"}

\* C5 as stated: a dealing made for RandomUnmasked fails publicly_verify under
\* Random, ReshareOfMasked, ReshareOfUnmasked and UnmaskedTimesMasked, for
\* every choice of the previous commitments, with a commitment-type or
\* ciphertext-type mismatch.
C5_Original ==
    (/\ PubVerified /\ MatchingParameters
     /\ shares.kind = "RandomUnmasked"
     /\ vcall.transcript_type.kind \in OtherOperations)
        => vresult.err \in TypeMismatchErrors

\* C5 (amended): a dealing made for RandomUnmasked never passes
\* publicly_verify under Random, ReshareOfMasked or UnmaskedTimesMasked,
\* whatever the previous commitments; with the parameters of the construction
\* the error is UnexpectedCommitmentType under Random and InvalidProof (the
\* proof is missing) under ReshareOfMasked and UnmaskedTimesMasked. Under
\* ReshareOfUnmasked(prev) it passes exactly when prev is a Simple commitment
\* on the signature curve that evaluates at dealer_index to the dealing's
\* constant term, and fails with CurveMismatch, UnexpectedCommitmentType or
\* InvalidCommitment otherwise.
C5_CrossOperationRejection ==
    (PubVerified /\ shares.kind = "RandomUnmasked") =>
        LET kind == vcall.transcript_type.kind IN
        /\ kind \in {"Random", "ReshareOfMasked", "UnmaskedTimesMasked"}
              => vresult.err # "Ok"
        /\ (kind = "Random" /\ MatchingParameters)
              => vresult.err = "UnexpectedCommitmentType"
        /\ (kind \in {"ReshareOfMasked", "UnmaskedTimesMasked"} /\ MatchingParameters)
              => vresult.err = "InvalidProof"
        /\ (kind = "ReshareOfUnmasked" /\ MatchingParameters)
              => /\ vresult.err = "Ok" <=>
                       OpensAt(vcall.transcript_type.c1, "Simple",
                               commitment_constant_term(result.dealing.commitment))
                 /\ vresult.err \in {"Ok", "CurveMismatch",
                                     "UnexpectedCommitmentType", "InvalidCommitment"}

C5_Witness ==
    /\ PubVerified /\ MatchingParameters
    /\ shares.kind = "RandomUnmasked"
    /\ vcall.transcript_type.kind = "ReshareOfUnmasked"
    /\ vresult.err = "Ok"

\* the case of C6: ReshareOfUnmasked(prev), no proof, Simple dealing
\* commitment, Simple prev, Single ciphertext
ReshareOfUnmaskedCase ==
    /\ PubVerified
    /\ vcall.transcript_type.kind = "ReshareOfUnmasked"
    /\ result.dealing.proof.kind = "None"
    /\ result.dealing.commitment.ctype = "Simple"
    /\ vcall.transcript_type.c1.ctype = "Simple"
    /\ result.dealing.ciphertext.ctype = "Single"

PrevEqualsConstantTerm ==
    commitment_evaluate_at(vcall.transcript_type.c1, vcall.dealer_index)
        = commitment_constant_term(result.dealing.commitment)

\* the curves of the dealing and of the previous commitment are the curves
\* of the call
CurvesAgree ==
    /\ result.dealing.commitment.curve = vcall.signature_curve
    /\ vcall.transcript_type.c1.curve = vcall.signature_curve
    /\ result.dealing.ciphertext.key_curve = vcall.key_curve
    /\ result.dealing.ciphertext.pt_curve = vcall.signature_curve

\* C6 as stated: in the ReshareOfUnmasked case publicly_verify returns Ok if
\* and only if prev.evaluate_at(dealer_index) equals the constant term, and
\* InvalidCommitment when they differ.
C6_Original ==
    ReshareOfUnmaskedCase =>
        /\ vresult.err = "Ok" <=> PrevEqualsConstantTerm
        /\ ~PrevEqualsConstantTerm => vresult.err = "InvalidCommitment"

\* C6 (amended): in the ReshareOfUnmasked case, when the commitment-length
\* check and the ciphertext validity check have passed and the dealing and
\* prev are on the curves of the call, publicly_verify returns Ok if and only
\* if prev.evaluate_at(dealer_index) equals the constant term, and
\* InvalidCommitment when they differ.
C6_ResharingConsistency ==
    (ReshareOfUnmaskedCase /\ LengthCheckPasses /\ ValidityCheckPasses /\ CurvesAgree)
        => /\ vresult.err = "Ok" <=> PrevEqualsConstantTerm
           /\ ~PrevEqualsConstantTerm => vresult.err = "InvalidCommitment"

C6_Witness ==
    /\ ReshareOfUnmaskedCase /\ LengthCheckPasses /\ ValidityCheckPasses /\ CurvesAgree
    /\ shares.kind = "ReshareOfUnmasked"
    /\ ~PrevEqualsConstantTerm
    /\ vresult.err = "InvalidCommitment"

\* the degree of the committed polynomial: one less than its coefficients
Degree(c) == Len(c.points) - 1

\* C7 as stated: publicly_verify returns InvalidCommitment unless the degree
\* of the dealing commitment equals reconstruction_threshold.
C7_Original ==
    (PubVerified /\ Degree(result.dealing.commitment) # vcall.reconstruction_threshold)
        => vresult.err = "InvalidCommitment"

\* C7 (amended): publicly_verify returns InvalidCommitment unless the number
\* of coefficients of the dealing commitment (its degree plus one) equals
\* reconstruction_threshold; this is the reported error also when the
\* ciphertext is invalid or the (operation, proof) pair is not enumerated.
C7_LengthCheckFirst ==
    (PubVerified /\ Len(result.dealing.commitment.points) # vcall.reconstruction_threshold)
        => vresult.err = "InvalidCommitment"

C7_Witness ==
    /\ PubVerified
    /\ Len(result.dealing.commitment.points) # vcall.reconstruction_threshold
    /\ ~ValidityCheckPasses
    /\ ~Enumerated
    /\ vresult.err = "InvalidCommitment"

\* C8: with a valid threshold, new returns InvalidSecretShare whenever an
\* embedded scalar is not on signature_curve, before any polynomial is
\* sampled, any ciphertext or commitment is computed and any proof is created.
C8_InvalidSecretShare ==
    (/\ pc # "start"
     /\ ThresholdValid
     /\ \E s \in EmbeddedScalars : s.curve # signature_curve)
        => /\ result.err = "InvalidSecretShare"
           /\ result.steps = <<>>
           /\ result.dealing = NoDealing

C8_Witness ==
    /\ pc = "constructed"
    /\ ThresholdValid
    /\ shares.kind = "UnmaskedTimesMasked"
    /\ shares.s1.curve = signature_curve
    /\ shares.s2.curve = signature_curve
    /\ shares.s3.curve # signature_curve
    /\ result.err = "InvalidSecretShare"

\* C9: privately_verify returns CurveMismatch whenever the curve of the
\* private key or of the public key differs from key_curve, or the curve of
\* the dealing commitment differs from signature_curve, before the ciphertext
\* shape check and before any decryption.
C9_CurveMismatch ==
    (/\ PrivVerified
     /\ \/ vcall.private_key.curve # vcall.key_curve
        \/ vcall.public_key.curve # vcall.key_curve
        \/ result.dealing.commitment.curve # vcall.signature_curve)
        => (vresult.err = "CurveMismatch" /\ vresult.steps = <<>>)

C9_Witness ==
    /\ PrivVerified
    /\ vcall.private_key.curve = vcall.key_curve
    /\ vcall.public_key.curve # vcall.key_curve
    /\ result.dealing.commitment.curve = vcall.signature_curve
    /\ vresult.err = "CurveMismatch"

\* C10: wrong-key detection. For a dealing returned by new, privately_verify
\* called for recipient i with a key pair that is not recipient i's never
\* returns Ok: it fails with CurveMismatch or with the error of the
\* decryption check.
C10_WrongKeyDetection ==
    (PrivVerified /\ ~OwnKeyPair(vcall.recipient_index))
        => vresult.err \in {"CurveMismatch", "InvalidCommitment"}

C10_Witness ==
    /\ PrivVerified
    /\ vcall.recipient_index = 0
    /\ Len(recipients) = 2
    /\ recipients[1] # recipients[2]
    /\ vcall.public_key = recipients[2]
    /\ vcall.private_key = MEGaPrivateKey(recipients[2].curve, recipients[2].v)
    /\ vcall.key_curve = recipients[1].curve
    /\ vcall.signature_curve = signature_curve
    /\ vcall.dealer_index = dealer_index
    /\ vcall.associated_data = associated_data
    /\ vresult.err = "InvalidCommitment"

\* C15: proof attachment. A dealing returned by new carries a
\* ProofOfMaskedResharing when the descriptor is ReshareOfMasked, a
\* ProofOfProduct when it is UnmaskedTimesMasked, and no proof when it is
\* Random, RandomUnmasked or ReshareOfUnmasked.
C15_ProofAttachment ==
    (pc = "constructed" /\ result.err = "Ok") =>
        result.dealing.proof.kind =
            CASE shares.kind = "ReshareOfMasked" -> "ProofOfMaskedResharing"
              [] shares.kind = "UnmaskedTimesMasked" -> "ProofOfProduct"
              [] OTHER -> "None"

C15_Witness ==
    /\ pc = "constructed"
    /\ result.err = "Ok"
    /\ shares.kind = "UnmaskedTimesMasked"
    /\ result.dealing.proof.kind = "ProofOfProduct"
    /\ result.dealing.proof.ad = associated_data

\* C17: shape. A dealing returned by new has a Pedersen commitment and a
\* Pairs ciphertext when the descriptor is Random or UnmaskedTimesMasked, and
\* a Simple commitment and a Single ciphertext when it is RandomUnmasked,
\* ReshareOfUnmasked or ReshareOfMasked; its commitment has exactly threshold
\* coefficients, i.e. degree threshold - 1.
C17_Shape ==
    (pc = "constructed" /\ result.err = "Ok") =>
        LET d == result.dealing
            masked == shares.kind \in {"Random", "UnmaskedTimesMasked"}
        IN /\ d.commitment.ctype = (IF masked THEN "Pedersen" ELSE "Simple")
           /\ d.ciphertext.ctype = (IF masked THEN "Pairs" ELSE "Single")
           /\ Len(d.commitment.points) = threshold
           /\ Degree(d.commitment) = threshold - 1

C17_Witness ==
    /\ pc = "constructed"
    /\ result.err = "Ok"
    /\ shares.kind = "ReshareOfMasked"
    /\ threshold = 2
    /\ result.dealing.commitment.ctype = "Simple"
    /\ result.dealing.ciphertext.ctype = "Single"
    /\ Len(result.dealing.commitment.points) = 2

\* the abscissa derived from the node index of the i-th recipient (1-based i)
Abscissa(i) == from_node_index(signature_curve, i - 1).v

\* C18: binding of ciphertext and commitment. In a dealing returned by new the
\* ciphertext has one entry per recipient, in the recipients' order; entry i
\* is the encryption to recipient i of the evaluation, at the abscissa of node
\* index i, of the polynomial the commitment commits to (for a masked dealing
\* the pair of evaluations of the value and mask polynomials); the commitment
\* has num_coefficients = threshold coefficients; and the committed constant
\* term is the reshared secret for the resharing descriptors and left * right
\* for UnmaskedTimesMasked.
C18_CommitEncryptBinding ==
    (pc = "constructed" /\ result.err = "Ok") =>
        LET d == result.dealing
            pts == d.commitment.points
        IN /\ Len(d.ciphertext.ctexts) = Len(recipients)
           /\ Len(pts) = threshold
           /\ \A i \in 1..Len(recipients) :
                 /\ d.ciphertext.ctexts[i].body =
                       <<horner_g(pts, Abscissa(i), 1), horner_h(pts, Abscissa(i), 1)>>
                 /\ d.ciphertext.ctexts[i].pad[2] = i - 1
                 /\ d.ciphertext.ctexts[i].pad[4] = recipients[i].v
           /\ shares.kind \in {"ReshareOfUnmasked", "ReshareOfMasked"}
                 => pts[1].g = shares.s1.v % Order
           /\ shares.kind = "UnmaskedTimesMasked"
                 => pts[1].g = (shares.s1.v * shares.s2.v) % Order

C18_Witness ==
    /\ pc = "constructed"
    /\ result.err = "Ok"
    /\ shares.kind = "UnmaskedTimesMasked"
    /\ shares.s1.v = 2 /\ shares.s2.v = 2
    /\ threshold = 2
    /\ Len(recipients) = 2
    /\ result.dealing.commitment.points[1].g = 4
    /\ result.dealing.ciphertext.ctexts[1].body # result.dealing.ciphertext.ctexts[2].body

\* the positions of the recorded collaborator calls of the construction
StepsAt(names) == {i \in 1..Len(result.steps) : result.steps[i] \in names}

\* C20: step order inside one call of new. Every sampling step (random
\* polynomial, random scalar) precedes the encryption and the creation of the
\* commitment; the proof is created only after both the encryption and the
\* commitment; and when the encryption or the commitment fails, no proof is
\* created and no dealing is returned.
C20_StepOrder ==
    pc = "constructed" =>
        /\ \A i \in StepsAt({"random_poly", "random_scalar"}),
              j \in StepsAt({"encrypt", "commit"}) : i < j
        /\ \A k \in StepsAt({"create_proof"}) :
              /\ \E i \in StepsAt({"encrypt"}) : i < k
              /\ \E j \in StepsAt({"commit"}) : j < k
        /\ (StepsAt({"encrypt"}) = {} \/ StepsAt({"commit"}) = {})
              => /\ StepsAt({"create_proof"}) = {}
                 /\ result.err # "Ok"
        /\ result.err # "Ok" =>
              /\ StepsAt({"create_proof"}) = {}
              /\ result.dealing = NoDealing

C20_Witness ==
    /\ pc = "constructed"
    /\ shares.kind = "UnmaskedTimesMasked"
    /\ ThresholdValid
    /\ \A s \in EmbeddedScalars : s.curve = signature_curve
    /\ result.err = "CurveMismatch"
    /\ result.steps = <<"mul", "random_scalar", "random_poly", "random_poly",
                        "evaluate", "encrypt">>
    /\ result.dealing = NoDealing

\* the variant and the curve of each scalar of a descriptor
Tags(sh) == <<sh.kind, sh.s1.curve, sh.s2.curve, sh.s3.curve>>

MixedCurves(sh) == \E s \in {sh.s2, sh.s3} \ {NoScalar} : s.curve # sh.s1.curve

\* C14: redaction. The Debug output of a descriptor depends on its variant and
\* on the curves of its scalars only: every descriptor of the same variant and
\* curves, whatever its scalar values, formats to the string written; and a
\* ReshareOfMasked or UnmaskedTimesMasked with scalars on mixed curves formats
\* to the fixed 'Unsupported curve combination' string of its variant.
C14_Redaction ==
    text # NoText =>
        /\ \A other \in SharesOn(EccCurveType) :
              Tags(other) = Tags(shares) => fmt(other) = text
        /\ MixedCurves(shares) =>
              text = "Unsupported curve combination in SecretShares::"
                        \o shares.kind \o "!"

C14_Witness ==
    /\ text = "SecretShares::ReshareOfUnmasked(EccScalar::P256) - REDACTED"
    /\ shares.kind = "ReshareOfUnmasked"
    /\ shares.s1.v = 2

\* C13: serialization round trip. Deserializing the bytes serialize wrote for
\* a dealing succeeds and returns a dealing with the same ciphertext,
\* commitment and proof; bytes that do not decode yield
\* ThresholdEcdsaSerializationError, and no dealing, decoded in part or
\* otherwise.
C13_SerializationRoundTrip ==
    received # NoReceived =>
        /\ received.bytes = serialize(received.sent).bytes =>
              /\ received.err = "Ok"
              /\ received.dealing.ciphertext = received.sent.ciphertext
              /\ received.dealing.commitment = received.sent.commitment
              /\ received.dealing.proof = received.sent.proof
        /\ ~cbor_from_slice(received.bytes).ok =>
              /\ received.err = "ThresholdEcdsaSerializationError"
              /\ received.dealing = NoDealing
        /\ received.err \in {"Ok", "ThresholdEcdsaSerializationError"}

C13_Witness ==
    /\ received.err = "Ok"
    /\ received.sent.proof.kind = "ProofOfProduct"
    /\ received.sent.ciphertext.ctype = "Pairs"
    /\ Len(received.sent.ciphertext.ctexts) = 2
    /\ received.dealing = received.sent
    /\ received.dealing = result.dealing

\* a deserialized dealing was verified
ReceivedPubVerified == PubVerified /\ received.err = "Ok"

ReceivedPrivVerified == PrivVerified /\ received.err = "Ok"

\* the dealing verified is not the one new returned
NotFromNew == received.dealing # result.dealing

\* C11: type soundness of public verification. For any dealing, produced by
\* new or not, publicly_verify returns Ok only if the kinds of the
\* commitment and of the ciphertext are those of the operation: Pedersen and
\* Pairs for Random; Simple and Single for RandomUnmasked; Simple and Single
\* with a Pedersen previous commitment for ReshareOfMasked; Simple and Single
\* with a Simple previous commitment for ReshareOfUnmasked; Pedersen and
\* Pairs with a Simple lhs and a Pedersen rhs for UnmaskedTimesMasked. With
\* any other kinds the result is an error.
C11_TypeSoundness ==
    (ReceivedPubVerified /\ vresult.err = "Ok") =>
        LET op == vcall.transcript_type
            com == received.dealing.commitment.ctype
            ct == received.dealing.ciphertext.ctype
        IN CASE op.kind = "Random" -> com = "Pedersen" /\ ct = "Pairs"
             [] op.kind = "RandomUnmasked" -> com = "Simple" /\ ct = "Single"
             [] op.kind = "ReshareOfMasked" ->
                   com = "Simple" /\ ct = "Single" /\ op.c1.ctype = "Pedersen"
             [] op.kind = "ReshareOfUnmasked" ->
                   com = "Simple" /\ ct = "Single" /\ op.c1.ctype = "Simple"
             [] op.kind = "UnmaskedTimesMasked" ->
                   /\ com = "Pedersen" /\ ct = "Pairs"
                   /\ op.c1.ctype = "Simple" /\ op.c2.ctype = "Pedersen"

C11_Witness ==
    /\ ReceivedPubVerified
    /\ NotFromNew
    /\ shares.kind = "Random"
    /\ vcall.transcript_type.kind = "Random"
    /\ received.dealing.commitment.ctype = "Pedersen"
    /\ received.dealing.ciphertext.ctype = "Pairs"
    /\ vresult.err = "Ok"

\* what the proof system answers for the proof of the verified dealing, the
\* previous commitments of the operation evaluated at the dealer index of the
\* call, the constant term of the dealing commitment and the associated data
\* of the call
ProofVerdictFor(ad) ==
    LET d == received.dealing
        op == vcall.transcript_type
    IN IF op.kind = "ReshareOfMasked"
       THEN proof_of_equal_openings_verify(d.proof,
                commitment_evaluate_at(op.c1, vcall.dealer_index),
                commitment_constant_term(d.commitment), ad)
       ELSE proof_of_product_verify(d.proof,
                commitment_evaluate_at(op.c1, vcall.dealer_index),
                commitment_evaluate_at(op.c2, vcall.dealer_index),
                commitment_constant_term(d.commitment), ad)

ProofVerdict == ProofVerdictFor(vcall.associated_data)

\* the checks that precede the verification of the proof pass
ReachesProofCheck ==
    LET d == received.dealing
        op == vcall.transcript_type
        sc == vcall.signature_curve
    IN /\ Len(d.commitment.points) = vcall.reconstruction_threshold
       /\ check_validity(d.ciphertext, vcall.number_of_receivers,
                         vcall.associated_data, vcall.dealer_index) = "Ok"
       /\ \/ /\ op.kind = "ReshareOfMasked"
             /\ d.proof.kind = "ProofOfMaskedResharing"
             /\ commitment_verify_is(d.commitment, "Simple", sc) = "Ok"
             /\ commitment_verify_is(op.c1, "Pedersen", sc) = "Ok"
             /\ ciphertext_verify_is(d.ciphertext, "Single", vcall.key_curve, sc) = "Ok"
          \/ /\ op.kind = "UnmaskedTimesMasked"
             /\ d.proof.kind = "ProofOfProduct"
             /\ commitment_verify_is(d.commitment, "Pedersen", sc) = "Ok"
             /\ ciphertext_verify_is(d.ciphertext, "Pairs", vcall.key_curve, sc) = "Ok"
             /\ commitment_verify_is(op.c1, "Simple", sc) = "Ok"
             /\ commitment_verify_is(op.c2, "Pedersen", sc) = "Ok"

\* C12: proof binding. Under ReshareOfMasked(prev) publicly_verify returns Ok
\* only if the dealing carries a ProofOfMaskedResharing that verifies against
\* prev.evaluate_at(dealer_index), the constant term of the dealing commitment
\* and the associated data of the call; under UnmaskedTimesMasked(lhs, rhs)
\* only if it carries a ProofOfProduct that verifies against
\* lhs.evaluate_at(dealer_index), rhs.evaluate_at(dealer_index), the constant
\* term and the associated data. When the verification of the proof is reached
\* and fails, publicly_verify returns the error of the proof system.
C12_ProofBinding ==
    (ReceivedPubVerified
        /\ vcall.transcript_type.kind \in {"ReshareOfMasked", "UnmaskedTimesMasked"})
    => /\ vresult.err = "Ok" =>
             /\ received.dealing.proof.kind =
                   (IF vcall.transcript_type.kind = "ReshareOfMasked"
                    THEN "ProofOfMaskedResharing" ELSE "ProofOfProduct")
             /\ ProofVerdict = "Ok"
       /\ ProofVerdict # "Ok" => vresult.err # "Ok"
       /\ (ReachesProofCheck /\ ProofVerdict # "Ok") => vresult.err = ProofVerdict

\* the proof was created for other associated data than the call's
C12_Witness ==
    /\ ReceivedPubVerified
    /\ NotFromNew
    /\ vcall.transcript_type.kind = "ReshareOfMasked"
    /\ ReachesProofCheck
    /\ received.dealing.proof.ad # vcall.associated_data
    /\ ProofVerdictFor(received.dealing.proof.ad) = "Ok"
    /\ vresult.err = "InvalidProof"

\* the ciphertext of the verified dealing has the type that goes with its
\* commitment
ShapeConsistent ==
    \/ /\ received.dealing.commitment.ctype = "Simple"
       /\ received.dealing.ciphertext.ctype = "Single"
    \/ /\ received.dealing.commitment.ctype = "Pedersen"
       /\ received.dealing.ciphertext.ctype = "Pairs"

\* C19: shape soundness of private verification. For any dealing, produced by
\* new or deserialized, privately_verify returns Ok only if the ciphertext is
\* Single when the commitment is Simple and Pairs when it is Pedersen, and the
\* decrypt-and-check of the recipient's share succeeded; a Simple commitment
\* with a Pairs ciphertext, or a Pedersen commitment with a Single ciphertext,
\* is rejected before anything is decrypted.
C19_PrivateShapeSoundness ==
    ReceivedPrivVerified =>
        /\ vresult.err = "Ok" =>
              /\ ShapeConsistent
              /\ vresult.steps = <<"verify_is", "decrypt_and_check">>
              /\ decrypt_and_check(received.dealing.ciphertext,
                     received.dealing.commitment, vcall.associated_data,
                     vcall.dealer_index, vcall.recipient_index,
                     vcall.private_key, vcall.public_key) = "Ok"
        /\ ~ShapeConsistent =>
              /\ vresult.err \in {"CurveMismatch", "InconsistentCiphertext"}
              /\ \A i \in 1..Len(vresult.steps) :
                    vresult.steps[i] # "decrypt_and_check"

C19_Witness ==
    /\ ReceivedPrivVerified
    /\ NotFromNew
    /\ received.dealing.commitment.ctype = "Pedersen"
    /\ received.dealing.ciphertext.ctype = "Single"
    /\ vcall.associated_data = associated_data
    /\ vcall.dealer_index = dealer_index
    /\ vresult.err = "InconsistentCiphertext"
    /\ vresult.steps = <<"verify_is">>

\* C21: check order and error pass-through. When the commitment-length check
\* passes and ciphertext.check_validity(number_of_receivers, associated_data,
\* dealer_index) fails, publicly_verify returns the error of check_validity,
\* whatever the (operation, proof) pair: an invalid ciphertext with a pair
\* that is not enumerated reports the error of the ciphertext, not the
\* InvalidProof of the catch-all arm.
C21_ValidityBeforeDispatch ==
    (PubVerified /\ LengthCheckPasses /\ ~ValidityCheckPasses) =>
        vresult.err = check_validity(result.dealing.ciphertext,
                          vcall.number_of_receivers, vcall.associated_data,
                          vcall.dealer_index)

C21_Witness ==
    /\ PubVerified
    /\ LengthCheckPasses
    /\ ~Enumerated
    /\ Len(result.dealing.ciphertext.ctexts) # vcall.number_of_receivers
    /\ vresult.err = "InvalidRecipients"

\* the call reached the ReshareOfUnmasked arm of the match
ReshareOfUnmaskedArm ==
    /\ PubVerified
    /\ LengthCheckPasses
    /\ ValidityCheckPasses
    /\ vcall.transcript_type.kind = "ReshareOfUnmasked"
    /\ result.dealing.proof.kind = "None"

\* C22: the inner UnexpectedCommitmentType of the ReshareOfUnmasked arm is
\* unreachable. No call returns from the Pedersen case of the inner match;
\* when the previous commitment is Pedersen and the arm gets as far as the
\* previous commitment, previous_commitment.verify_is(Simple,
\* signature_curve) returns an error and that error is the result of
\* publicly_verify.
C22_InnerMatchUnreachable ==
    ReshareOfUnmaskedArm =>
        /\ vresult.steps # <<"match", "match Pedersen">>
        /\ ( /\ vcall.transcript_type.c1.ctype = "Pedersen"
             /\ commitment_verify_is(result.dealing.commitment, "Simple",
                    vcall.signature_curve) = "Ok" )
           => /\ vresult.steps = <<"match", "previous_commitment.verify_is">>
              /\ vresult.err # "Ok"
              /\ vresult.err = commitment_verify_is(vcall.transcript_type.c1,
                                   "Simple", vcall.signature_curve)

C22_Witness ==
    /\ ReshareOfUnmaskedArm
    /\ result.dealing.commitment.ctype = "Simple"
    /\ vcall.transcript_type.c1.ctype = "Pedersen"
    /\ vcall.transcript_type.c1.curve = vcall.signature_curve
    /\ vresult.steps = <<"match", "previous_commitment.verify_is">>
    /\ vresult.err = "UnexpectedCommitmentType"

\* the encoding decodes to a scalar
Decodes(bytes) == bytes.byte < Order

\* the scalar an encoding stands for
Decoded(bytes) == EccScalar(bytes.curve, bytes.byte)

\* C23: SecretShares::try_from maps (Simple, None) to ReshareOfUnmasked,
\* (Pedersen, None) to ReshareOfMasked and (Simple, Some(Pedersen)) to
\* UnmaskedTimesMasked, with the scalars in the order of the openings; it
\* returns ThresholdEcdsaSerializationError for every other combination and
\* when a scalar does not decode; it never returns Random or RandomUnmasked.
C23_TryFromOpenings ==
    opened.err # "none" =>
        LET f == opened.first
            s == opened.second
            failed == /\ opened.err = "ThresholdEcdsaSerializationError"
                      /\ opened.shares = NoShares
        IN /\ opened.shares.kind \notin {"Random", "RandomUnmasked"}
           /\ CASE f.ctype = "Simple" /\ s = NoOpening ->
                      IF Decodes(f.b1)
                      THEN /\ opened.err = "Ok"
                           /\ opened.shares = SecretShares("ReshareOfUnmasked",
                                 Decoded(f.b1), NoScalar, NoScalar)
                      ELSE failed
                [] f.ctype = "Pedersen" /\ s = NoOpening ->
                      IF Decodes(f.b1) /\ Decodes(f.b2)
                      THEN /\ opened.err = "Ok"
                           /\ opened.shares = SecretShares("ReshareOfMasked",
                                 Decoded(f.b1), Decoded(f.b2), NoScalar)
                      ELSE failed
                [] f.ctype = "Simple" /\ s.ctype = "Pedersen" ->
                      IF Decodes(f.b1) /\ Decodes(s.b1) /\ Decodes(s.b2)
                      THEN /\ opened.err = "Ok"
                           /\ opened.shares = SecretShares("UnmaskedTimesMasked",
                                 Decoded(f.b1), Decoded(s.b1), Decoded(s.b2))
                      ELSE failed
                [] OTHER -> failed

C23_Witness ==
    /\ opened.err = "Ok"
    /\ opened.first.ctype = "Simple"
    /\ opened.second.ctype = "Pedersen"
    /\ opened.second.b1.byte # opened.second.b2.byte
    /\ opened.shares.kind = "UnmaskedTimesMasked"
    /\ opened.shares.s2.v = opened.second.b1.byte
    /\ opened.shares.s3.v = opened.second.b2.byte

\* the bytes a memory grew by, as a number without a width
AddedBytes(new_pages, old_pages) ==
    IF new_pages <= old_pages THEN 0
    ELSE (new_pages - old_pages) * WASM_PAGE_SIZE_IN_BYTES

\* C24: allocated_bytes returns (total, message) where message is the
\* allocated request bytes of the system state changes and total is the sum of
\* the bytes the Wasm memory grew by, the bytes the stable memory grew by and
\* message, saturating at the maximum of the word; a memory that did not grow
\* contributes 0; and total >= message.
C24_AllocatedBytes ==
    allocated.called =>
        LET wasm == AddedBytes(allocated.new_wasm_pages, allocated.old_wasm_pages)
            stable == AddedBytes(allocated.new_stable_pages, allocated.old_stable_pages)
            sum == wasm + stable + allocated.request_bytes
        IN /\ allocated.message = allocated.request_bytes
           /\ allocated.total = (IF sum > WordMax THEN WordMax ELSE sum)
           /\ allocated.total >= allocated.message
           /\ ( /\ allocated.new_wasm_pages <= allocated.old_wasm_pages
                /\ allocated.new_stable_pages <= allocated.old_stable_pages )
              => allocated.total = allocated.message

\* a memory shrank, the other grew, and the sum saturated
C24_Witness ==
    /\ allocated.called
    /\ allocated.new_wasm_pages < allocated.old_wasm_pages
    /\ allocated.new_stable_pages = allocated.old_stable_pages + 1
    /\ allocated.request_bytes = WordMax - 1
    /\ allocated.total = WordMax
    /\ allocated.message = WordMax - 1

====
